---- MODULE Spec2Model ----
(***************************************************************************)
(* Content-defined chunking (cdchunking): the stream engine ChunkStream,   *)
(* the views built on it (WholeChunks, all_chunks, ChunkInfoStream), the   *)
(* in-memory Slices iterator, the SizeLimited combinator and the shipped   *)
(* boundary strategies.                                                    *)
(*                                                                         *)
(* A u32 is kept as a pair <<hi, lo>> of 16-bit limbs, so that wrapping    *)
(* arithmetic modulo 2^32 is computed exactly.  An Option<usize> is the    *)
(* empty sequence (None) or a one-element sequence (Some(k)).              *)
(***************************************************************************)
EXTENDS Integers, Sequences, FiniteSets, TLC

\* ------------------------------------------------------------------------
\* Bounds of the model
\* ------------------------------------------------------------------------

\* longest input, in bytes
MaxLen == 4

\* the byte values that inputs are drawn from
Bytes == {0, 1, 3}

\* ------------------------------------------------------------------------
\* Option<usize>
\* ------------------------------------------------------------------------

None == << >>

Some(k) == << k >>

IsSome(r) == Len(r) = 1

Unwrap(r) == r[1]

\* value returned by a strategy call: new state, answer, and whether the
\* call panicked (a failed assert!)
Ret(s, r) == [st |-> s, res |-> r, panic |-> FALSE]

PanicRet(s) == [st |-> s, res |-> None, panic |-> TRUE]

\* ------------------------------------------------------------------------
\* u32 wrapping arithmetic on <<hi, lo>> limbs
\* ------------------------------------------------------------------------

W16 == 256 * 256

U32(n) == << n \div W16, n % W16 >>

U32Zero == << 0, 0 >>

\* Wrapping<u32> + Wrapping<u32>, u32::wrapping_add
U32Add(a, b) ==
  LET lo == a[2] + b[2]
  IN  << (a[1] + b[1] + (lo \div W16)) % W16, lo % W16 >>

\* u32 << 1
U32Shl1(a) == << (a[1] * 2 + (a[2] \div 32768)) % W16, (a[2] * 2) % W16 >>

\* the full 32-bit product of two 16-bit limbs, by 8-bit halves
Mul16(x, y) ==
  LET x1 == x \div 256
      x0 == x % 256
      y1 == y \div 256
      y0 == y % 256
      mid == x1 * y0 + x0 * y1
      los == (mid % 256) * 256 + x0 * y0
  IN  << (x1 * y1 + (mid \div 256) + (los \div W16)) % W16, los % W16 >>

\* Wrapping<u32> * Wrapping<u32>
U32Mul(a, b) ==
  LET ll == Mul16(a[2], b[2])
  IN  << (ll[1] + Mul16(a[1], b[2])[2] + Mul16(a[2], b[1])[2]) % W16, ll[2] >>

RECURSIVE And16(_, _, _)
\* bitwise and of the low n bits of x and y
And16(x, y, n) ==
  IF n = 0 THEN 0
  ELSE (x % 2) * (y % 2) + 2 * And16(x \div 2, y \div 2, n - 1)

\* u32 & u32
U32And(a, m) == << And16(a[1], m[1], 16), And16(a[2], m[2], 16) >>

RECURSIVE Pow2(_)
Pow2(n) == IF n = 0 THEN 1 ELSE 2 * Pow2(n - 1)

\* a < (1 << n), for 0 <= n <= 31
U32LtPow2(a, n) ==
  IF n >= 16 THEN a[1] < Pow2(n - 16)
  ELSE a[1] = 0 /\ a[2] < Pow2(n)

\* u32 % d, for a divisor d < 2^15
U32Mod(a, d) == ((a[1] % d) * (W16 % d) + (a[2] % d)) % d

RECURSIVE count_ones(_)
\* u8::count_ones
count_ones(b) == IF b = 0 THEN 0 ELSE (b % 2) + count_ones(b \div 2)

Min(a, b) == IF a < b THEN a ELSE b

RECURSIVE MaxOf(_, _)
\* the largest of the first n elements of a non-empty data (Iterator::max)
MaxOf(data, n) ==
  IF n = 1 THEN data[1]
  ELSE LET m == MaxOf(data, n - 1) IN IF data[n] >= m THEN data[n] ELSE m

\* &data[from..to], 0-based, to exclusive
Slice(data, from, to) == SubSeq(data, from + 1, to)

\* ------------------------------------------------------------------------
\* Gear table (gear.rs)
\* ------------------------------------------------------------------------

TABLE ==
  <<
    <<54251, 38813>>, <<55000, 14688>>, <<15570, 16528>>, <<28718, 38190>>,
    <<20676, 32586>>, <<56150, 55222>>, <<5232, 46694>>, <<37245, 27020>>,
    <<19234, 11739>>, <<40545, 13613>>, <<45499, 21450>>, <<29668, 31547>>,
    <<18620, 40053>>, <<52577, 64311>>, <<16187, 30379>>, <<20080, 16146>>,
    <<33170, 49014>>, <<15179, 53183>>, <<45321, 26932>>, <<28109, 15216>>,
    <<15202, 46569>>, <<41891, 64885>>, <<16202, 2880>>, <<4175, 30284>>,
    <<15008, 6688>>, <<41209, 30978>>, <<21717, 16506>>, <<7655, 282>>,
    <<53630, 22689>>, <<26373, 49162>>, <<9901, 43091>>, <<65021, 24276>>,
    <<34429, 25455>>, <<2646, 46690>>, <<59851, 7906>>, <<58482, 49978>>,
    <<6662, 49808>>, <<29657, 1847>>, <<41352, 23879>>, <<27481, 13607>>,
    <<55164, 42116>>, <<64835, 51801>>, <<63097, 33381>>, <<33907, 52786>>,
    <<7674, 22447>>, <<42919, 63332>>, <<833, 39359>>, <<55597, 63424>>,
    <<49974, 25981>>, <<45523, 52942>>, <<10240, 659>>, <<3174, 23911>>,
    <<6582, 59161>>, <<2852, 32809>>, <<44025, 9796>>, <<21134, 63004>>,
    <<37068, 25564>>, <<16825, 56778>>, <<26120, 44070>>, <<52461, 64062>>,
    <<22594, 35996>>, <<50705, 50571>>, <<46175, 58630>>, <<18408, 59819>>,
    <<37781, 62762>>, <<2962, 64848>>, <<18539, 51462>>, <<31824, 58551>>,
    <<29934, 65051>>, <<63395, 37111>>, <<30108, 58168>>, <<35548, 45683>>,
    <<19199, 8415>>, <<7050, 7657>>, <<65115, 51185>>, <<3474, 35295>>,
    <<29225, 35239>>, <<5538, 45104>>, <<32909, 26880>>, <<14289, 27389>>,
    <<59481, 41341>>, <<26083, 43066>>, <<32594, 12772>>, <<43210, 62360>>,
    <<22345, 55638>>, <<43189, 60894>>, <<50169, 3330>>, <<35674, 46926>>,
    <<4443, 34234>>, <<22440, 7520>>, <<50545, 65488>>, <<42933, 11984>>,
    <<3560, 60722>>, <<64984, 15706>>, <<21416, 21426>>, <<4725, 6463>>,
    <<52972, 5574>>, <<45896, 62237>>, <<23953, 62059>>, <<64587, 35899>>,
    <<15554, 51417>>, <<11105, 15646>>, <<46821, 34795>>, <<46056, 7918>>,
    <<17482, 61703>>, <<1624, 26419>>, <<38932, 31298>>, <<61936, 50362>>,
    <<32149, 49648>>, <<1291, 54912>>, <<51698, 63780>>, <<57639, 40744>>,
    <<29657, 58034>>, <<56275, 19998>>, <<44882, 836>>, <<56473, 41419>>,
    <<64872, 64463>>, <<39911, 21424>>, <<3404, 2517>>, <<48039, 28975>>,
    <<51765, 33877>>, <<62735, 17371>>, <<47878, 40423>>, <<56352, 2746>>,
    <<24704, 21023>>, <<20438, 60750>>, <<44202, 3821>>, <<27318, 30625>>,
    <<49760, 10489>>, <<27578, 40019>>, <<23785, 18900>>, <<8561, 4486>>,
    <<56442, 42939>>, <<38981, 56072>>, <<29291, 53472>>, <<55099, 27406>>,
    <<34657, 22370>>, <<48225, 62863>>, <<39256, 40024>>, <<31012, 60908>>,
    <<2705, 18640>>, <<290, 62535>>, <<5393, 397>>, <<38386, 47782>>,
    <<55627, 61333>>, <<36843, 34615>>, <<16872, 15097>>, <<26622, 54191>>,
    <<49557, 18478>>, <<43860, 34122>>, <<9828, 22793>>, <<26181, 17300>>,
    <<354, 9637>>, <<38573, 50827>>, <<27246, 45088>>, <<38522, 6024>>,
    <<52273, 19897>>, <<19751, 56707>>, <<2751, 64970>>, <<23980, 61971>>,
    <<32109, 8486>>, <<34112, 37076>>, <<16269, 52047>>, <<50146, 15694>>,
    <<55699, 942>>, <<14252, 12285>>, <<19988, 62264>>, <<37637, 49709>>,
    <<52926, 1273>>, <<56843, 23045>>, <<2996, 10063>>, <<9390, 18781>>,
    <<65102, 22973>>, <<7448, 5742>>, <<54086, 56589>>, <<48611, 35033>>,
    <<24344, 42584>>, <<53022, 62783>>, <<58040, 43911>>, <<40599, 40996>>,
    <<55964, 29459>>, <<13081, 53558>>, <<6497, 64374>>, <<9752, 21463>>,
    <<36448, 23766>>, <<22588, 44049>>, <<27204, 39487>>, <<62365, 53306>>,
    <<13732, 123>>, <<28277, 11546>>, <<57416, 61480>>, <<12738, 22187>>,
    <<37819, 40311>>, <<5307, 21793>>, <<32981, 60404>>, <<26690, 11175>>,
    <<40738, 27889>>, <<49320, 9319>>, <<42075, 32770>>, <<24145, 9856>>,
    <<64087, 56604>>, <<32899, 62304>>, <<60045, 5626>>, <<33709, 37897>>,
    <<34846, 3265>>, <<36170, 42358>>, <<21487, 33729>>, <<5643, 5472>>,
    <<36238, 55146>>, <<14641, 37689>>, <<48654, 39316>>, <<53074, 62816>>,
    <<5538, 43091>>, <<2550, 54271>>, <<48265, 8359>>, <<54985, 8468>>,
    <<55795, 13839>>, <<58611, 63104>>, <<4723, 3380>>, <<53008, 16529>>,
    <<8466, 16792>>, <<31464, 51930>>, <<45460, 35149>>, <<42379, 12825>>,
    <<35375, 26925>>, <<10068, 40409>>, <<38661, 22534>>, <<32995, 62257>>,
    <<57914, 8995>>, <<15998, 44999>>, <<3555, 616>>, <<59631, 9529>>,
    <<59578, 12871>>, <<6246, 61969>>, <<63312, 10875>>, <<5731, 13156>>,
    <<23824, 25244>>, <<48420, 23830>>, <<28990, 44045>>, <<46797, 37129>>,
    <<16410, 6641>>, <<34580, 1693>>, <<58639, 12040>>, <<31520, 38664>>,
    <<2197, 7464>>, <<12196, 28999>>, <<15016, 47067>>, <<32635, 62892>>,
    <<35913, 12547>>, <<34259, 50800>>, <<50119, 629>>, <<32188, 29398>>,
    <<1546, 38738>>, <<28215, 51022>>, <<63347, 33663>>, <<44167, 692>>
  >>

\* ------------------------------------------------------------------------
\* ZPAQ (lib.rs)
\* ------------------------------------------------------------------------

\* Wrapping(314_159_265)
HM1 == << 4793, 45217 >>

\* Wrapping(271_828_182)
HM2 == << 4147, 50390 >>

ZPAQ_new(nbits) ==
  [kind |-> "ZPAQ", nbits |-> 32 - nbits, c1 |-> 0,
   o1 |-> [i \in 0..255 |-> 0], h |-> U32Zero]

\* mutant of ZPAQ_hash: the two multipliers exchanged
ZPAQ_hash_swapped(s, byte) ==
  IF byte = s.o1[s.c1]
  THEN U32Mul(HM2, U32Add(s.h, U32(byte + 1)))
  ELSE U32Mul(HM1, U32Add(s.h, U32(byte + 1)))

\* the hash after one byte
ZPAQ_hash(s, byte) ==
  IF byte = s.o1[s.c1]
  THEN U32Mul(HM1, U32Add(s.h, U32(byte + 1)))
  ELSE U32Mul(HM2, U32Add(s.h, U32(byte + 1)))

\* ZPAQ::update: the new state and whether the byte is a boundary
ZPAQ_update(s, byte) ==
  LET h1 == ZPAQ_hash(s, byte)
  IN  [st |-> [s EXCEPT !.h = h1, !.o1[s.c1] = byte, !.c1 = byte],
       cut |-> U32LtPow2(h1, s.nbits)]

RECURSIVE ZPAQ_scan(_, _, _)
ZPAQ_scan(s, data, pos) ==
  IF pos < Len(data)
  THEN LET u == ZPAQ_update(s, data[pos + 1])
       IN  IF u.cut THEN Ret(u.st, Some(pos))
           ELSE ZPAQ_scan(u.st, data, pos + 1)
  ELSE Ret(s, None)

ZPAQ_find_boundary(s, data) == ZPAQ_scan(s, data, 0)

ZPAQ_reset(s) ==
  [s EXCEPT !.c1 = 0, !.o1 = [i \in 0..255 |-> 0], !.h = U32Zero]

\* ------------------------------------------------------------------------
\* Gear and Normalized-Chunking Gear (gear.rs)
\* ------------------------------------------------------------------------

GearState_default == [hash |-> U32Zero, pos |-> 0]

GearState_reset(st) == [st EXCEPT !.hash = U32Zero, !.pos = 0]

\* ingest that updates the hash and leaves the position alone
GearState_ingest_hash_only(st, b) ==
  [st EXCEPT !.hash = U32Add(U32Shl1(st.hash), TABLE[b + 1])]

GearState_ingest(st, b) ==
  [st EXCEPT !.hash = U32Add(U32Shl1(st.hash), TABLE[b + 1]),
             !.pos = st.pos + 1]

GearState_check_hash(st, mask) == U32And(st.hash, mask) = U32Zero

GearChunker_new(mask) ==
  [kind |-> "Gear", mask |-> mask, state |-> GearState_default]

RECURSIVE GearChunker_scan(_, _, _)
GearChunker_scan(s, data, i) ==
  IF i < Len(data)
  THEN LET st == GearState_ingest(s.state, data[i + 1])
           s1 == [s EXCEPT !.state = st]
       IN  IF GearState_check_hash(st, s.mask) THEN Ret(s1, Some(i))
           ELSE GearChunker_scan(s1, data, i + 1)
  ELSE Ret(s, None)

GearChunker_find_boundary(s, data) == GearChunker_scan(s, data, 0)

GearChunker_reset(s) == [s EXCEPT !.state = GearState_reset(s.state)]

NormalizedChunkingGearChunker_new(lower_mask, upper_mask, target_chunk_size) ==
  [kind |-> "NCGear", lower_mask |-> lower_mask, upper_mask |-> upper_mask,
   target_chunk_size |-> target_chunk_size, state |-> GearState_default]

\* the lower mask only below the target size, not at it
NormalizedChunkingGearChunker_mask_strict(s, st) ==
  IF st.pos < s.target_chunk_size THEN s.lower_mask ELSE s.upper_mask

\* the mask that applies at the current position
NormalizedChunkingGearChunker_mask(s, st) ==
  IF st.pos <= s.target_chunk_size THEN s.lower_mask ELSE s.upper_mask

RECURSIVE NormalizedChunkingGearChunker_scan(_, _, _)
NormalizedChunkingGearChunker_scan(s, data, i) ==
  IF i < Len(data)
  THEN LET st == GearState_ingest(s.state, data[i + 1])
           s1 == [s EXCEPT !.state = st]
       IN  IF GearState_check_hash(st, NormalizedChunkingGearChunker_mask(s, st))
           THEN Ret(s1, Some(i))
           ELSE NormalizedChunkingGearChunker_scan(s1, data, i + 1)
  ELSE Ret(s, None)

NormalizedChunkingGearChunker_find_boundary(s, data) ==
  NormalizedChunkingGearChunker_scan(s, data, 0)

NormalizedChunkingGearChunker_reset(s) ==
  [s EXCEPT !.state = GearState_reset(s.state)]

\* ------------------------------------------------------------------------
\* AE, Asymmetric Extremum (ae.rs)
\* ------------------------------------------------------------------------

AEChunkerState_default == [max_value |-> 0, max_position |-> 0, pos |-> 0]

AEChunkerState_reset(st) ==
  [st EXCEPT !.max_value = 0, !.max_position = 0, !.pos = 0]

\* (target_chunk_size as f64 / (E - 1.0)).round(), with E - 1 = 1.71828
\* to five decimals (exact for the small targets used here)
AEChunker_window_size(target_chunk_size) ==
  (2 * 100000 * target_chunk_size + 171828) \div (2 * 171828)

AEChunker_new(target_chunk_size) ==
  [kind |-> "AE", window_size |-> AEChunker_window_size(target_chunk_size),
   state |-> AEChunkerState_default]

RECURSIVE AEChunker_scan(_, _, _)
AEChunker_scan(s, data, i) ==
  IF i < Len(data)
  THEN LET b == data[i + 1]
           global_pos == s.state.pos + i
       IN  IF b <= s.state.max_value
           THEN IF global_pos = s.state.max_position + s.window_size
                THEN Ret(s, Some(i))
                ELSE AEChunker_scan(s, data, i + 1)
           ELSE AEChunker_scan(
                  [s EXCEPT !.state.max_value = b,
                            !.state.max_position = global_pos],
                  data, i + 1)
  ELSE Ret([s EXCEPT !.state.pos = s.state.pos + Len(data)], None)

\* find_boundary that counts positions from the start of the view
AEChunker_find_boundary_view_pos(s, data) ==
  AEChunker_scan([s EXCEPT !.state.pos = 0], data, 0)

AEChunker_find_boundary(s, data) == AEChunker_scan(s, data, 0)

AEChunker_reset(s) == [s EXCEPT !.state = AEChunkerState_reset(s.state)]

\* ------------------------------------------------------------------------
\* RAM, Rapid Asymmetric Maximum (ram.rs)
\* ------------------------------------------------------------------------

RAMState_default == [maximum_value |-> 0, pos |-> 0]

RAMState_reset(st) == [st EXCEPT !.maximum_value = 0, !.pos = 0]

RAMChunker_new(window_size) ==
  [kind |-> "RAM", window_size |-> window_size, state |-> RAMState_default]

RECURSIVE RAMChunker_scan(_, _, _)
RAMChunker_scan(s, data, i) ==
  IF i < Len(data)
  THEN LET b == data[i + 1]
           global_pos == i + s.state.pos
       IN  IF b >= s.state.maximum_value
           THEN IF global_pos > s.window_size
                THEN Ret(s, Some(i))
                ELSE RAMChunker_scan([s EXCEPT !.state.maximum_value = b],
                                     data, i + 1)
           ELSE RAMChunker_scan(s, data, i + 1)
  ELSE Ret([s EXCEPT !.state.pos = s.state.pos + Len(data)], None)

RAMChunker_find_boundary(s, data) == RAMChunker_scan(s, data, 0)

RAMChunker_reset(s) == [s EXCEPT !.state = RAMState_reset(s.state)]

MaybeOptimizedRAMChunker_new(window_size) ==
  [kind |-> "MaybeOptimizedRAM", window_size |-> window_size,
   state |-> RAMState_default]

\* ensure_window_filled: the new state and the Option it returns
MaybeOptimizedRAMChunker_ensure_window_filled(s, data) ==
  LET num_bytes_to_advance == Min(Len(data), s.window_size - s.state.pos)
  IN  IF num_bytes_to_advance = 0 THEN Ret(s, Some(0))
      ELSE LET max_value == MaxOf(data, num_bytes_to_advance)
               mv == IF max_value >= s.state.maximum_value
                     THEN max_value ELSE s.state.maximum_value
               s1 == [s EXCEPT !.state.maximum_value = mv,
                               !.state.pos = s.state.pos + num_bytes_to_advance]
           IN  IF s1.state.pos = s.window_size
               THEN Ret(s1, Some(num_bytes_to_advance))
               ELSE Ret(s1, None)

RECURSIVE MaybeOptimizedRAMChunker_find(_, _, _)
\* data[pos..].iter().enumerate().find(|b| b >= maximum_value), re-based
MaybeOptimizedRAMChunker_find(s, data, i) ==
  IF i < Len(data)
  THEN IF data[i + 1] >= s.state.maximum_value THEN Some(i)
       ELSE MaybeOptimizedRAMChunker_find(s, data, i + 1)
  ELSE None

MaybeOptimizedRAMChunker_find_boundary(s, data) ==
  LET w == MaybeOptimizedRAMChunker_ensure_window_filled(s, data)
  IN  IF ~IsSome(w.res) THEN Ret(w.st, None)
      ELSE Ret(w.st, MaybeOptimizedRAMChunker_find(w.st, data, Unwrap(w.res)))

MaybeOptimizedRAMChunker_reset(s) ==
  [s EXCEPT !.state = RAMState_reset(s.state)]

\* ------------------------------------------------------------------------
\* MII, Minimal Incremental Interval (mii.rs)
\* ------------------------------------------------------------------------

\* previous_value: Option<u8> is None or Some(b)
MIIChunkerState_default == [increment_run_length |-> 0, previous_value |-> None]

MIIChunkerState_reset(st) ==
  [st EXCEPT !.increment_run_length = 0, !.previous_value = None]

MIIChunker_new(interval_length_threshold) ==
  [kind |-> "MII", interval_length_threshold |-> interval_length_threshold,
   state |-> MIIChunkerState_default]

RECURSIVE MIIChunker_scan(_, _, _)
MIIChunker_scan(s, data, i) ==
  IF i < Len(data)
  THEN LET b == data[i + 1]
           s1 == IF IsSome(s.state.previous_value)
                 THEN IF b > Unwrap(s.state.previous_value)
                      THEN [s EXCEPT !.state.increment_run_length =
                                       s.state.increment_run_length + 1]
                      ELSE [s EXCEPT !.state.increment_run_length = 0]
                 ELSE s
       IN  IF /\ IsSome(s.state.previous_value)
              /\ b > Unwrap(s.state.previous_value)
              /\ s1.state.increment_run_length = s.interval_length_threshold
           THEN Ret(s1, Some(i))
           ELSE MIIChunker_scan([s1 EXCEPT !.state.previous_value = Some(b)],
                                data, i + 1)
  ELSE Ret(s, None)

\* find_boundary that forgets the previous byte at the start of each view
MIIChunker_find_boundary_forget(s, data) ==
  MIIChunker_scan([s EXCEPT !.state.previous_value = None], data, 0)

MIIChunker_find_boundary(s, data) == MIIChunker_scan(s, data, 0)

MIIChunker_reset(s) == [s EXCEPT !.state = MIIChunkerState_reset(s.state)]

\* ------------------------------------------------------------------------
\* PCI, Parity Check of Interval (pci.rs)
\* ------------------------------------------------------------------------

\* the window [u8; W] is a function on 0..W-1
PCIChunkerState_default(W) ==
  [window |-> [i \in 0..(W - 1) |-> 0], pos |-> 0, running_popcount |-> 0]

\* reset that leaves the bytes in the window
PCIChunkerState_reset_keep_window(st, W) ==
  [st EXCEPT !.pos = 0, !.running_popcount = 0]

PCIChunkerState_reset(st, W) ==
  [st EXCEPT !.window = [i \in 0..(W - 1) |-> 0], !.pos = 0,
             !.running_popcount = 0]

\* is_window_full that holds from the first byte on
PCIChunkerState_is_window_full_always(st, W) == st.pos >= 1

PCIChunkerState_is_window_full(st, W) == st.pos >= W

PCIChunkerState_ingest_byte_update_popcount(st, W, b) ==
  LET pos == st.pos % W
      popcount_to_remove == count_ones(st.window[pos])
  IN  [st EXCEPT !.running_popcount =
                    (st.running_popcount - popcount_to_remove) + count_ones(b),
                 !.window[pos] = b,
                 !.pos = st.pos + 1]

PCIChunker_new(W, one_bits_threshold) ==
  [kind |-> "PCI", W |-> W, one_bits_threshold |-> one_bits_threshold,
   state |-> PCIChunkerState_default(W)]

RECURSIVE PCIChunker_scan(_, _, _)
PCIChunker_scan(s, data, i) ==
  IF i < Len(data)
  THEN LET st == PCIChunkerState_ingest_byte_update_popcount(
                   s.state, s.W, data[i + 1])
           s1 == [s EXCEPT !.state = st]
       IN  IF /\ PCIChunkerState_is_window_full(st, s.W)
              /\ st.running_popcount >= s.one_bits_threshold
           THEN Ret(s1, Some(i))
           ELSE PCIChunker_scan(s1, data, i + 1)
  ELSE Ret(s, None)

PCIChunker_find_boundary(s, data) == PCIChunker_scan(s, data, 0)

PCIChunker_reset(s) == [s EXCEPT !.state = PCIChunkerState_reset(s.state, s.W)]

\* reset that keeps the bytes of a window that has been filled
PCIChunkerStateNonConst_reset_keep(st, window_size) ==
  [window |-> IF st.window = << >> THEN [i \in 1..window_size |-> 0]
              ELSE st.window,
   pos |-> 0, running_popcount |-> 0]

\* the window VecDeque<u8> is a sequence, front first
PCIChunkerStateNonConst_reset(st, window_size) ==
  [window |-> [i \in 1..window_size |-> 0], pos |-> 0, running_popcount |-> 0]

PCIChunkerStateNonConst_default ==
  [window |-> << >>, pos |-> 0, running_popcount |-> 0]

PCIChunkerStateNonConst_ingest_byte(st, b) ==
  [st EXCEPT !.running_popcount =
                (st.running_popcount - count_ones(Head(st.window)))
                + count_ones(b),
             !.window = Append(Tail(st.window), b),
             !.pos = st.pos + 1]

PCIChunkerNonConst_new(window_size, one_bits_threshold) ==
  [kind |-> "PCINonConst", one_bits_threshold |-> one_bits_threshold,
   state |-> PCIChunkerStateNonConst_reset(PCIChunkerStateNonConst_default,
                                           window_size),
   window_size |-> window_size]

RECURSIVE PCIChunkerNonConst_scan(_, _, _)
PCIChunkerNonConst_scan(s, data, i) ==
  IF i < Len(data)
  THEN LET st == PCIChunkerStateNonConst_ingest_byte(s.state, data[i + 1])
           popcount == st.running_popcount
           s1 == [s EXCEPT !.state = st]
       IN  IF st.pos >= s.window_size /\ popcount >= s.one_bits_threshold
           THEN Ret(s1, Some(i))
           ELSE PCIChunkerNonConst_scan(s1, data, i + 1)
  ELSE Ret(s, None)

PCIChunkerNonConst_find_boundary(s, data) == PCIChunkerNonConst_scan(s, data, 0)

PCIChunkerNonConst_reset(s) ==
  [s EXCEPT !.state = PCIChunkerStateNonConst_reset(s.state, s.window_size)]

\* ------------------------------------------------------------------------
\* BFBC, Bytes Frequency-Based Chunking (bfbc.rs)
\* ------------------------------------------------------------------------

BFBCChunkerState_default == [pos |-> 0, previous_byte |-> None]

BFBCChunkerState_reset(st) == [st EXCEPT !.pos = 0, !.previous_byte = None]

BFBCChunkerState_ingest(st, b) ==
  [st EXCEPT !.pos = st.pos + 1, !.previous_byte = Some(b)]

BFBCChunkerState_match_against(st, b, pair) ==
  /\ b = pair[2]
  /\ IF IsSome(st.previous_byte) THEN Unwrap(st.previous_byte) = pair[1]
     ELSE FALSE

\* frequent_byte_pairs is a sequence of pairs <<first, second>>
BFBCChunker_new(frequent_byte_pairs, min_chunk_size) ==
  [kind |-> "BFBC", frequent_byte_pairs |-> frequent_byte_pairs,
   min_chunk_size |-> min_chunk_size, state |-> BFBCChunkerState_default]

RECURSIVE BFBCChunker_scan(_, _, _)
BFBCChunker_scan(s, data, i) ==
  IF i < Len(data)
  THEN LET b == data[i + 1]
       IN  IF /\ s.state.pos > s.min_chunk_size
              /\ \E j \in 1..Len(s.frequent_byte_pairs) :
                   BFBCChunkerState_match_against(
                     s.state, b, s.frequent_byte_pairs[j])
           THEN Ret(s, Some(i))
           ELSE BFBCChunker_scan(
                  [s EXCEPT !.state = BFBCChunkerState_ingest(s.state, b)],
                  data, i + 1)
  ELSE Ret(s, None)

BFBCChunker_find_boundary(s, data) == BFBCChunker_scan(s, data, 0)

BFBCChunker_reset(s) == [s EXCEPT !.state = BFBCChunkerState_reset(s.state)]

\* ------------------------------------------------------------------------
\* TTTD, Two-Threshold Two-Divisor (tttd.rs)
\* ------------------------------------------------------------------------

TTTDState_default == [hash |-> U32Zero, pos |-> 0, backup_pos |-> 0]

TTTDState_reset(st) == [st EXCEPT !.hash = U32Zero, !.pos = 0, !.backup_pos = 0]

TTTDState_ingest(st, b) ==
  [st EXCEPT !.hash = U32Add(U32Shl1(st.hash), TABLE[b + 1]),
             !.pos = st.pos + 1]

\* check_hash that records the position after the backup byte
TTTDState_check_hash_late(st, divisor, backup_divisor) ==
  [st |-> IF U32Mod(st.hash, backup_divisor) = backup_divisor - 1
          THEN [st EXCEPT !.backup_pos = st.pos + 1] ELSE st,
   cut |-> U32Mod(st.hash, divisor) = divisor - 1]

\* check_hash: the state with backup_pos recorded, and the answer
TTTDState_check_hash(st, divisor, backup_divisor) ==
  [st |-> IF U32Mod(st.hash, backup_divisor) = backup_divisor - 1
          THEN [st EXCEPT !.backup_pos = st.pos] ELSE st,
   cut |-> U32Mod(st.hash, divisor) = divisor - 1]

TTTDChunker_new(divisor, backup_divisor, min_chunk_size, max_chunk_size) ==
  [kind |-> "TTTD", divisor |-> divisor, backup_divisor |-> backup_divisor,
   min_chunk_size |-> min_chunk_size, max_chunk_size |-> max_chunk_size,
   state |-> TTTDState_default]

RECURSIVE TTTDChunker_scan(_, _, _)
TTTDChunker_scan(s, data, i) ==
  IF i < Len(data)
  THEN LET st == TTTDState_ingest(s.state, data[i + 1])
           s1 == [s EXCEPT !.state = st]
       IN  IF st.pos >= s.min_chunk_size
           THEN IF st.pos >= s.max_chunk_size
                THEN IF st.backup_pos > 0
                     THEN Ret(s1, Some(st.backup_pos))
                     ELSE Ret(s1, Some(i))
                ELSE LET c == TTTDState_check_hash(
                                st, s.divisor, s.backup_divisor)
                         s2 == [s EXCEPT !.state = c.st]
                     IN  IF c.cut THEN Ret(s2, Some(i))
                         ELSE TTTDChunker_scan(s2, data, i + 1)
           ELSE TTTDChunker_scan(s1, data, i + 1)
  ELSE Ret(s, None)

TTTDChunker_find_boundary(s, data) == TTTDChunker_scan(s, data, 0)

TTTDChunker_reset(s) == [s EXCEPT !.state = TTTDState_reset(s.state)]

\* ------------------------------------------------------------------------
\* Fixed-size chunking (fsc.rs)
\* ------------------------------------------------------------------------

FixedSizeChunkerState_default == [pos |-> 0]

FixedSizeChunkerState_reset(st) == [st EXCEPT !.pos = 0]

FixedSizeChunker_new(chunk_size) ==
  [kind |-> "FixedSize", chunk_size |-> chunk_size,
   state |-> FixedSizeChunkerState_default]

\* mutant of FixedSizeChunker_find_boundary: the position reached in earlier
\* blocks is forgotten
FixedSizeChunker_find_boundary_stateless(s, data) ==
  IF Len(data) >= s.chunk_size THEN Ret(s, Some(s.chunk_size - 1))
  ELSE Ret(s, None)

\* find_boundary that returns the offset one past the last byte of the
\* chunk
FixedSizeChunker_find_boundary_past(s, data) ==
  IF s.state.pos + Len(data) >= s.chunk_size
  THEN Ret(s, Some(s.chunk_size - s.state.pos))
  ELSE Ret([s EXCEPT !.state.pos = s.state.pos + Len(data)], None)

FixedSizeChunker_find_boundary(s, data) ==
  IF s.state.pos + Len(data) >= s.chunk_size
  THEN Ret(s, Some((s.chunk_size - s.state.pos) - 1))
  ELSE Ret([s EXCEPT !.state.pos = s.state.pos + Len(data)], None)

FixedSizeChunker_reset(s) ==
  [s EXCEPT !.state = FixedSizeChunkerState_reset(s.state)]

\* ------------------------------------------------------------------------
\* trait ChunkerImpl and the SizeLimited combinator (lib.rs)
\* ------------------------------------------------------------------------

RECURSIVE ChunkerImpl_find_boundary(_, _)
RECURSIVE ChunkerImpl_reset(_)

\* Chunker::max_size builds this around the chunker's inner strategy
SizeLimited_new(inner, max) ==
  [kind |-> "SizeLimited", inner |-> inner, pos |-> 0, max_size |-> max]

\* the part of the view handed to the inner strategy
SizeLimited_slice(data, left) ==
  IF Len(data) > left THEN Slice(data, 0, left) ELSE data

\* the answer when the inner strategy found nothing in the slice
SizeLimited_forced(data, left) ==
  IF Len(data) >= left THEN Some(left - 1) ELSE None

\* what find_boundary does with the inner strategy's answer r on slice
SizeLimited_after(s, data, left, slice_len, r) ==
  IF r.panic THEN PanicRet([s EXCEPT !.inner = r.st])
  ELSE IF IsSome(r.res)
  THEN Ret([s EXCEPT !.inner = r.st, !.pos = s.pos + Unwrap(r.res) + 1], r.res)
  ELSE Ret([s EXCEPT !.inner = r.st, !.pos = s.pos + slice_len],
           SizeLimited_forced(data, left))

\* find_boundary once left = max_size - pos is known
SizeLimited_inner(s, data, left) ==
  IF left = 1 THEN Ret(s, Some(0))
  ELSE SizeLimited_after(
         s, data, left, Len(SizeLimited_slice(data, left)),
         ChunkerImpl_find_boundary(s.inner, SizeLimited_slice(data, left)))

SizeLimited_find_boundary(s, data) ==
  IF ~(s.max_size > s.pos) THEN PanicRet(s)
  ELSE IF Len(data) = 0 THEN Ret(s, None)
  ELSE SizeLimited_inner(s, data, s.max_size - s.pos)

\* reset that forwards to the inner strategy and keeps pos
SizeLimited_reset_inner_only(s) == [s EXCEPT !.inner = ChunkerImpl_reset(s.inner)]

\* mutant of SizeLimited_reset: the inner strategy is left as it is
SizeLimited_reset_pos_only(s) == [s EXCEPT !.pos = 0]

SizeLimited_reset(s) ==
  [s EXCEPT !.pos = 0, !.inner = ChunkerImpl_reset(s.inner)]

\* dynamic dispatch of ChunkerImpl::find_boundary on the strategy's type
ChunkerImpl_find_boundary(s, data) ==
  CASE s.kind = "ZPAQ" -> ZPAQ_find_boundary(s, data)
    [] s.kind = "Gear" -> GearChunker_find_boundary(s, data)
    [] s.kind = "NCGear" -> NormalizedChunkingGearChunker_find_boundary(s, data)
    [] s.kind = "AE" -> AEChunker_find_boundary(s, data)
    [] s.kind = "RAM" -> RAMChunker_find_boundary(s, data)
    [] s.kind = "MaybeOptimizedRAM" ->
         MaybeOptimizedRAMChunker_find_boundary(s, data)
    [] s.kind = "MII" -> MIIChunker_find_boundary(s, data)
    [] s.kind = "PCI" -> PCIChunker_find_boundary(s, data)
    [] s.kind = "PCINonConst" -> PCIChunkerNonConst_find_boundary(s, data)
    [] s.kind = "BFBC" -> BFBCChunker_find_boundary(s, data)
    [] s.kind = "TTTD" -> TTTDChunker_find_boundary(s, data)
    [] s.kind = "FixedSize" -> FixedSizeChunker_find_boundary(s, data)
    [] s.kind = "SizeLimited" -> SizeLimited_find_boundary(s, data)

\* dynamic dispatch of ChunkerImpl::reset
ChunkerImpl_reset(s) ==
  CASE s.kind = "ZPAQ" -> ZPAQ_reset(s)
    [] s.kind = "Gear" -> GearChunker_reset(s)
    [] s.kind = "NCGear" -> NormalizedChunkingGearChunker_reset(s)
    [] s.kind = "AE" -> AEChunker_reset(s)
    [] s.kind = "RAM" -> RAMChunker_reset(s)
    [] s.kind = "MaybeOptimizedRAM" -> MaybeOptimizedRAMChunker_reset(s)
    [] s.kind = "MII" -> MIIChunker_reset(s)
    [] s.kind = "PCI" -> PCIChunker_reset(s)
    [] s.kind = "PCINonConst" -> PCIChunkerNonConst_reset(s)
    [] s.kind = "BFBC" -> BFBCChunker_reset(s)
    [] s.kind = "TTTD" -> TTTDChunker_reset(s)
    [] s.kind = "FixedSize" -> FixedSizeChunker_reset(s)
    [] s.kind = "SizeLimited" -> SizeLimited_reset(s)

\* ------------------------------------------------------------------------
\* The chunkers and inputs that are explored
\* ------------------------------------------------------------------------

\* 0x8000_0000 and 0xC000_0000: one and two most-significant bits set
MaskTop1 == << 32768, 0 >>

MaskTop2 == << 49152, 0 >>

\* one instance of every shipped strategy
Strategies ==
  { ZPAQ_new(2),
    GearChunker_new(MaskTop1),
    NormalizedChunkingGearChunker_new(MaskTop2, MaskTop1, 1),
    AEChunker_new(2),
    RAMChunker_new(1),
    MaybeOptimizedRAMChunker_new(1),
    MIIChunker_new(1),
    PCIChunker_new(2, 2),
    PCIChunkerNonConst_new(2, 2),
    BFBCChunker_new(<< << 1, 3 >> >>, 2),
    TTTDChunker_new(4, 2, 1, 3),
    FixedSizeChunker_new(2) }

\* the sizes given to Chunker::max_size
Limits == {2, 3}

\* Chunker::new(strategy), optionally followed by .max_size(max)
Chunker_new(inner) == [inner |-> inner]

\* mutant of Chunker_max_size_accepts: no check of max
Chunker_max_size_accepts_any(max) == max >= 0

\* assert!(max > 0) at the head of Chunker::max_size
Chunker_max_size_accepts(max) == max > 0

Chunker_max_size(chunker, max) ==
  [inner |-> SizeLimited_new(chunker.inner, max)]

\* the chunkers explored: every strategy alone and under each limit, and,
\* alone, TTTD with min_chunk_size 2 and max_chunk_size 4 and both
\* implementations of PCI with a window of one byte
Chunkers ==
  { Chunker_new(s) : s \in Strategies }
    \cup { Chunker_max_size(Chunker_new(s), m) : s \in Strategies, m \in Limits }
    \cup { Chunker_new(TTTDChunker_new(4, 2, 2, 4)),
            Chunker_new(PCIChunker_new(1, 1)),
            Chunker_new(PCIChunkerNonConst_new(1, 1)) }

\* all byte sequences of length 0..MaxLen
Inputs == UNION { [1..n -> Bytes] : n \in 0..MaxLen }

\* b"defghijklmnopqrstuvwxyz1234567890", the data of base() in the tests
ZPAQ_example ==
  << 100, 101, 102, 103, 104, 105, 106, 107, 108, 109, 110, 111, 112, 113,
     114, 115, 116, 117, 118, 119, 120, 121, 122, 49, 50, 51, 52, 53, 54, 55,
     56, 57, 48 >>

\* 00 0A 0B 0A 0B
BFBC_example == << 0, 10, 11, 10, 11 >>

\* 01 02 03 04 00 05 06 07 08 09
MII_example == << 1, 2, 3, 4, 0, 5, 6, 7, 8, 9 >>

\* the documented examples: a chunker and the input it is run on
Examples ==
  { [chunker |-> Chunker_new(ZPAQ_new(3)), input |-> ZPAQ_example],
    [chunker |-> Chunker_new(BFBCChunker_new(<< << 10, 11 >> >>, 2)),
     input |-> BFBC_example],
    [chunker |-> Chunker_new(MIIChunker_new(3)), input |-> MII_example] }

\* ------------------------------------------------------------------------
\* State
\* ------------------------------------------------------------------------

VARIABLES
  input,      \* the bytes behind the reader, or the in-memory buffer
  chunker,    \* the Chunker the view was built from
  view,       \* "stream": the reader-based views; "slices": Chunker::slices
  stream,     \* ChunkStream: reader, inner, buffer, len, pos, status
  last,       \* kind of the item the last read() / next() call returned
  events,     \* every Data / End item returned by read, in order
  cuts,       \* absolute offset of every boundary the strategy reported
  panicked,   \* an assert! failed
  wc,         \* WholeChunks: the accumulator `buffer`
  wc_out,     \* the vectors WholeChunks::next has yielded
  ac,         \* all_chunks: the `chunks` vector and the state of the call
  ci,         \* ChunkInfoStream: last_chunk, pos
  ci_out,     \* the ChunkInfo items yielded
  sl,         \* Slices: inner, pos (its buffer is input)
  sl_out,     \* the slices yielded
  errs,       \* one entry per read() call in which the reader failed
  calls,      \* the Chunker::new / max_size calls made by the builder
  ops,        \* what the last read() / next() call called, in order:
              \* "reader", "find_boundary", "reset"
  resets      \* how many times the view has called reset() so far

vars == << input, chunker, view, stream, last, events, cuts, panicked,
           wc, wc_out, ac, ci, ci_out, sl, sl_out, errs, calls, ops,
           resets >>

streamVars == << stream, last, events, cuts, wc, wc_out, ac, ci, ci_out >>

\* const BUF_SIZE under cfg(test)
BUF_SIZE == 8

\* ------------------------------------------------------------------------
\* ChunkStream (lib.rs)
\* ------------------------------------------------------------------------

\* the status a new stream starts in (Chunker::stream)
ChunkStream_initial_status == "Data"

\* Chunker::stream
Chunker_stream(c, reader) ==
  [reader |-> reader, inner |-> c.inner,
   buffer |-> [i \in 1..BUF_SIZE |-> 0],
   pos |-> 0, len |-> 0, status |-> ChunkStream_initial_status]

\* items returned by ChunkStream::read
ItemData(d) == [t |-> "Data", d |-> d]

ItemEnd == [t |-> "End"]

ItemNone == [t |-> "None"]

ItemPanic == [t |-> "Panic"]

\* Some(Err(e)): the reader's error, returned as it is
ItemErr(e) == [t |-> "Err", e |-> e]

\* Read::read on the in-memory reader, delivering n of the remaining bytes
\* into the front of buf
Reader_read(reader, buf, n) ==
  [reader |-> SubSeq(reader, n + 1, Len(reader)),
   buf |-> [i \in 1..Len(buf) |-> IF i <= n THEN reader[i] ELSE buf[i]],
   n |-> n]

\* mutant of ChunkStream_payload: the payload taken from the start of the
\* buffer instead of from the saved `start`
ChunkStream_payload_from_zero(buffer, start, end) == Slice(buffer, 0, end)

\* the payload of a Data item, &self.buffer[start..end]
ChunkStream_payload(buffer, start, end) == Slice(buffer, start, end)

\* the position after a split, the byte at the split left for the next
\* chunk
ChunkStream_after_split_before(pos, split) == pos + split

\* the position after a split (self.pos += split + 1)
ChunkStream_after_split(pos, split) == pos + split + 1

\* what read() does with the strategy's answer r about buffer[pos..len]
ChunkStream_emit(cs, r) ==
  IF r.panic
  THEN [cs |-> [cs EXCEPT !.inner = r.st], ret |-> ItemPanic, cut |-> FALSE,
        ops |-> << "find_boundary" >>]
  ELSE IF IsSome(r.res)
  THEN IF ~(cs.pos + Unwrap(r.res) < cs.len)
       THEN [cs |-> [cs EXCEPT !.inner = r.st], ret |-> ItemPanic,
             cut |-> FALSE, ops |-> << "find_boundary" >>]
       ELSE [cs |-> [cs EXCEPT !.inner = r.st, !.status = "AtSplit",
                               !.pos = ChunkStream_after_split(
                                         cs.pos, Unwrap(r.res))],
             ret |-> ItemData(ChunkStream_payload(
                         cs.buffer, cs.pos,
                         ChunkStream_after_split(cs.pos, Unwrap(r.res)))),
             cut |-> TRUE, ops |-> << "find_boundary" >>]
  ELSE [cs |-> [cs EXCEPT !.inner = r.st, !.pos = cs.len, !.status = "Data"],
        ret |-> ItemData(ChunkStream_payload(cs.buffer, cs.pos, cs.len)),
        cut |-> FALSE, ops |-> << "find_boundary" >>]

\* the tail of read(): ask the strategy about buffer[pos..len]
ChunkStream_scan(cs) ==
  ChunkStream_emit(
    cs, ChunkerImpl_find_boundary(cs.inner, Slice(cs.buffer, cs.pos, cs.len)))

\* the result r of the tail of read(), in a call that called the reader
\* first
ChunkStream_after_reader(r) == [r EXCEPT !.ops = << "reader" >> \o @]

\* read() after the reader returned: cs is the stream before the call, got
\* what Reader_read gave
ChunkStream_refilled(cs, got) ==
  IF got.n = 0
  THEN IF cs.status = "Data"
       THEN [cs |-> [cs EXCEPT !.pos = 0, !.len = 0, !.reader = got.reader,
                               !.buffer = got.buf, !.status = "End"],
             ret |-> ItemEnd, cut |-> FALSE, ops |-> << "reader" >>]
       ELSE [cs |-> [cs EXCEPT !.pos = 0, !.len = 0, !.reader = got.reader,
                               !.buffer = got.buf],
             ret |-> ItemNone, cut |-> FALSE, ops |-> << "reader" >>]
  ELSE ChunkStream_after_reader(
         ChunkStream_scan([cs EXCEPT !.pos = 0, !.len = got.n,
                                     !.reader = got.reader,
                                     !.buffer = got.buf]))

\* the middle of read(): the buffer is used up, call the reader, which
\* delivers n bytes (0 at end of input)
ChunkStream_refill(cs, n) ==
  ChunkStream_refilled(cs, Reader_read(cs.reader, cs.buffer, n))

\* a failing read() that has cleared len and not yet pos
ChunkStream_read_failed_len_first(cs, e) ==
  [cs |-> [cs EXCEPT !.len = 0], ret |-> ItemErr(e), cut |-> FALSE,
   ops |-> << "reader" >>]

\* read() when the reader is called and fails with error e: pos has been
\* set to 0, the assignment to len does not happen, and the error is
\* returned; the failed call leaves the buffer and the reader as they were
ChunkStream_read_failed(cs, e) ==
  [cs |-> [cs EXCEPT !.pos = 0], ret |-> ItemErr(e), cut |-> FALSE,
   ops |-> << "reader" >>]

\* read() that, returning the pending End, drops the rest of the buffer
ChunkStream_read_drop_rest(cs, n) ==
  IF cs.status = "AtSplit"
  THEN [cs |-> [cs EXCEPT !.status = "End", !.pos = cs.len,
                          !.inner = ChunkerImpl_reset(cs.inner)],
        ret |-> ItemEnd, cut |-> FALSE, ops |-> << "reset" >>]
  ELSE IF cs.pos = cs.len THEN ChunkStream_refill(cs, n)
  ELSE ChunkStream_scan(cs)

\* read() that returns the pending End without resetting the strategy
ChunkStream_read_no_reset(cs, n) ==
  IF cs.status = "AtSplit"
  THEN [cs |-> [cs EXCEPT !.status = "End"],
        ret |-> ItemEnd, cut |-> FALSE, ops |-> << >>]
  ELSE IF cs.pos = cs.len THEN ChunkStream_refill(cs, n)
  ELSE ChunkStream_scan(cs)

\* ChunkStream::read, given the count n the reader returns if it is called
ChunkStream_read(cs, n) ==
  IF cs.status = "AtSplit"
  THEN [cs |-> [cs EXCEPT !.status = "End",
                          !.inner = ChunkerImpl_reset(cs.inner)],
        ret |-> ItemEnd, cut |-> FALSE, ops |-> << "reset" >>]
  ELSE IF cs.pos = cs.len THEN ChunkStream_refill(cs, n)
  ELSE ChunkStream_scan(cs)

\* ------------------------------------------------------------------------
\* WholeChunks, all_chunks, ChunkInfoStream (lib.rs)
\* ------------------------------------------------------------------------

\* Chunker::whole_chunks
Chunker_whole_chunks == [buffer |-> << >>]

\* mutant of WholeChunks_next: the accumulator is not emptied on End
WholeChunks_next_keep(w, item) ==
  CASE item.t = "Data" -> [wc |-> [w EXCEPT !.buffer = w.buffer \o item.d],
                           yield |-> None, err |-> None]
    [] item.t = "End" -> [wc |-> w, yield |-> Some(w.buffer), err |-> None]
    [] item.t = "Err" -> [wc |-> w, yield |-> None, err |-> Some(item.e)]
    [] OTHER -> [wc |-> w, yield |-> None, err |-> None]

\* mutant of WholeChunks_next: a reader error is skipped and the loop goes on
WholeChunks_next_swallow(w, item) ==
  CASE item.t = "Data" -> [wc |-> [w EXCEPT !.buffer = w.buffer \o item.d],
                           yield |-> None, err |-> None]
    [] item.t = "End" -> [wc |-> [w EXCEPT !.buffer = << >>],
                          yield |-> Some(w.buffer), err |-> None]
    [] OTHER -> [wc |-> w, yield |-> None, err |-> None]

\* one turn of the loop of WholeChunks::next on the item read() returned:
\* the new accumulator and what the turn yields (None: the loop goes on,
\* or the iterator has ended) or the error it returns
WholeChunks_next(w, item) ==
  CASE item.t = "Data" -> [wc |-> [w EXCEPT !.buffer = w.buffer \o item.d],
                           yield |-> None, err |-> None]
    [] item.t = "End" -> [wc |-> [w EXCEPT !.buffer = << >>],
                          yield |-> Some(w.buffer), err |-> None]
    [] item.t = "Err" -> [wc |-> w, yield |-> None, err |-> Some(item.e)]
    [] OTHER -> [wc |-> w, yield |-> None, err |-> None]

\* Chunker::all_chunks: `chunks` collects the Ok items of whole_chunks and
\* the call returns Ok(chunks) when the iterator ends, or Err(e) at the
\* first error the iterator yields; w is what WholeChunks::next made of item
Chunker_all_chunks(a, w, item) ==
  IF a.result # "Running" THEN a
  ELSE IF IsSome(w.err)
  THEN [a EXCEPT !.result = "Err", !.error = w.err]
  ELSE IF IsSome(w.yield)
  THEN [a EXCEPT !.chunks = Append(a.chunks, Unwrap(w.yield))]
  ELSE IF item.t = "None" THEN [a EXCEPT !.result = "Ok"]
  ELSE a

\* Chunker::chunks
Chunker_chunks == [last_chunk |-> 0, pos |-> 0]

ChunkInfo(start, length) == [start |-> start, length |-> length]

\* mutant of ChunkInfoStream_next: last_chunk is not moved on End
ChunkInfoStream_next_no_last(c, item) ==
  CASE item.t = "Data" -> [ci |-> [c EXCEPT !.pos = c.pos + Len(item.d)],
                           yield |-> None, err |-> None]
    [] item.t = "End" ->
         [ci |-> c,
          yield |-> Some(ChunkInfo(c.last_chunk, c.pos - c.last_chunk)),
          err |-> None]
    [] item.t = "Err" -> [ci |-> c, yield |-> None, err |-> Some(item.e)]
    [] OTHER -> [ci |-> c, yield |-> None, err |-> None]

\* one turn of the loop of ChunkInfoStream::next
ChunkInfoStream_next(c, item) ==
  CASE item.t = "Data" -> [ci |-> [c EXCEPT !.pos = c.pos + Len(item.d)],
                           yield |-> None, err |-> None]
    [] item.t = "End" ->
         [ci |-> [c EXCEPT !.last_chunk = c.pos],
          yield |-> Some(ChunkInfo(c.last_chunk, c.pos - c.last_chunk)),
          err |-> None]
    [] item.t = "Err" -> [ci |-> c, yield |-> None, err |-> Some(item.e)]
    [] OTHER -> [ci |-> c, yield |-> None, err |-> None]

\* ------------------------------------------------------------------------
\* Slices (lib.rs)
\* ------------------------------------------------------------------------

\* Chunker::slices
Chunker_slices(c) == [inner |-> c.inner, pos |-> 0]

\* what Slices::next does with the strategy's answer r about buffer[pos..]
Slices_emit(s, buffer, r) ==
  IF r.panic
  THEN [sl |-> [s EXCEPT !.inner = r.st], item |-> ItemPanic, cut |-> FALSE,
        ops |-> << "find_boundary" >>]
  ELSE IF IsSome(r.res)
  THEN IF ~(s.pos + Unwrap(r.res) < Len(buffer))
       THEN [sl |-> [s EXCEPT !.inner = r.st], item |-> ItemPanic,
             cut |-> FALSE, ops |-> << "find_boundary" >>]
       ELSE [sl |-> [s EXCEPT !.pos = s.pos + Unwrap(r.res) + 1,
                              !.inner = ChunkerImpl_reset(r.st)],
             item |-> ItemData(Slice(buffer, s.pos,
                                     s.pos + Unwrap(r.res) + 1)),
             cut |-> TRUE, ops |-> << "find_boundary", "reset" >>]
  ELSE [sl |-> [s EXCEPT !.pos = Len(buffer), !.inner = r.st],
        item |-> ItemData(Slice(buffer, s.pos, Len(buffer))),
        cut |-> FALSE, ops |-> << "find_boundary" >>]

\* Slices::next: the new iterator state and the item (None, a slice, or a
\* panic)
Slices_next(s, buffer) ==
  IF s.pos = Len(buffer)
  THEN [sl |-> s, item |-> ItemNone, cut |-> FALSE, ops |-> << >>]
  ELSE Slices_emit(
         s, buffer,
         ChunkerImpl_find_boundary(s.inner, Slice(buffer, s.pos, Len(buffer))))

\* ------------------------------------------------------------------------
\* Specification
\* ------------------------------------------------------------------------

RECURSIVE DataBytes(_)
\* the number of bytes carried by the Data items of a list of events
DataBytes(evs) ==
  IF evs = << >> THEN 0
  ELSE (IF Head(evs).t = "Data" THEN Len(Head(evs).d) ELSE 0)
       + DataBytes(Tail(evs))

Init ==
  /\ \/ input \in Inputs /\ chunker \in Chunkers
     \/ \E x \in Examples : input = x.input /\ chunker = x.chunker
  /\ view \in {"stream", "slices"}
  /\ stream = Chunker_stream(chunker, input)
  /\ last = "Init"
  /\ events = << >>
  /\ cuts = << >>
  /\ panicked = FALSE
  /\ wc = Chunker_whole_chunks
  /\ wc_out = << >>
  /\ ac = [chunks |-> << >>, result |-> "Running", error |-> None]
  /\ ci = Chunker_chunks
  /\ ci_out = << >>
  /\ sl = Chunker_slices(chunker)
  /\ sl_out = << >>
  /\ errs = << >>
  /\ calls = << >>
  /\ ops = << >>
  /\ resets = 0

\* the views follow one read(): r is what ChunkStream_read gave, w and c
\* what the loops of WholeChunks::next and ChunkInfoStream::next make of it
Follow(r, w, c) ==
  /\ stream' = r.cs
  /\ last' = r.ret.t
  /\ panicked' = (r.ret.t = "Panic")
  /\ events' = IF r.ret.t \in {"Data", "End"} THEN Append(events, r.ret)
               ELSE events
  /\ cuts' = IF r.cut THEN Append(cuts, DataBytes(events) + Len(r.ret.d) - 1)
             ELSE cuts
  /\ wc' = w.wc
  /\ wc_out' = wc_out \o w.yield
  /\ ac' = Chunker_all_chunks(ac, w, r.ret)
  /\ ci' = c.ci
  /\ ci_out' = ci_out \o c.yield
  /\ errs' = IF r.ret.t = "Err"
             THEN Append(errs, [read |-> r.ret.e, wc |-> w.err, ci |-> c.err,
                                events |-> Len(events') - Len(events),
                                chunks |-> Len(wc_out') - Len(wc_out)
                                             + Len(ci_out') - Len(ci_out)])
             ELSE errs
  /\ ops' = r.ops
  /\ resets' = resets + Cardinality({ k \in DOMAIN r.ops : r.ops[k] = "reset" })
  /\ UNCHANGED << input, chunker, view, sl, sl_out, calls >>

Returned(r) ==
  Follow(r, WholeChunks_next(wc, r.ret), ChunkInfoStream_next(ci, r.ret))

\* one call of ChunkStream::read, made by the loops of WholeChunks::next
\* (under all_chunks) and ChunkInfoStream::next, which run on streams fed
\* by the same reader and are followed in step; n is what the reader
\* returns if read() calls it
Deliver(n) == Returned(ChunkStream_read(stream, n))

\* read() with a split pending: returns End without touching the reader
ReadPending ==
  /\ view = "stream" /\ ~panicked
  /\ stream.status = "AtSplit"
  /\ Deliver(0)

\* read() with bytes left in the buffer
ReadBuffered ==
  /\ view = "stream" /\ ~panicked
  /\ stream.status # "AtSplit" /\ stream.pos # stream.len
  /\ Deliver(0)

\* the counts a read may return while bytes are left: any count from 1 to
\* what fits in the buffer; the documented examples are read as the tests
\* read them, from an io::Cursor, which gives all that fits
Reader_counts(reader) ==
  IF input \in Inputs THEN 1..Min(BUF_SIZE, Len(reader))
  ELSE IF reader = << >> THEN {} ELSE { Min(BUF_SIZE, Len(reader)) }

\* read() that calls the reader, which delivers 1..BUF_SIZE bytes
ReadRefill ==
  /\ view = "stream" /\ ~panicked
  /\ stream.status # "AtSplit" /\ stream.pos = stream.len
  /\ \E n \in Reader_counts(stream.reader) : Deliver(n)

\* read() that calls the reader at end of input
ReadEof ==
  /\ view = "stream" /\ ~panicked
  /\ stream.status # "AtSplit" /\ stream.pos = stream.len
  /\ Len(stream.reader) = 0
  /\ Deliver(0)

SlicesReturned(r) ==
  /\ sl' = r.sl
  /\ last' = r.item.t
  /\ panicked' = (r.item.t = "Panic")
  /\ sl_out' = IF r.item.t = "Data" THEN Append(sl_out, r.item.d) ELSE sl_out
  /\ cuts' = IF r.cut THEN Append(cuts, r.sl.pos - 1) ELSE cuts
  /\ ops' = r.ops
  /\ resets' = resets + Cardinality({ k \in DOMAIN r.ops : r.ops[k] = "reset" })
  /\ UNCHANGED << input, chunker, view, stream, events, wc, wc_out, ac, ci,
                  ci_out, errs, calls >>

\* one call of Slices::next
SlicesNext ==
  /\ view = "slices" /\ ~panicked
  /\ SlicesReturned(Slices_next(sl, input))

Next == ReadPending \/ ReadBuffered \/ ReadRefill \/ ReadEof \/ SlicesNext

Spec == Init /\ [][Next]_vars

\* the number of times the reader fails in a run
MaxErrors == 1

\* read() that calls the reader, which fails; the k-th failure of the reader
\* is the error value k
ReadError ==
  /\ view = "stream" /\ ~panicked
  /\ stream.status # "AtSplit" /\ stream.pos = stream.len
  /\ Len(errs) < MaxErrors
  /\ Returned(ChunkStream_read_failed(stream, Len(errs) + 1))

NextErr == Next \/ ReadError

\* the runs in which the reader may fail
SpecErr == Init /\ [][NextErr]_vars

\* ------------------------------------------------------------------------
\* The builder: Chunker::new, max_size, then a view
\* ------------------------------------------------------------------------

\* the longest input given to a view in the runs that start at the builder
MaxBuildLen == 2

\* the min_chunk_size arguments tried with BFBCChunker::new
BFBCMins == {0, 1, 2, 3}

\* the arguments tried with Chunker::max_size
BuildLimits == {0, 1, 2, 3}

\* the strategies handed to Chunker::new
BuildStrategies ==
  Strategies \cup { BFBCChunker_new(<< << 1, 3 >> >>, m) : m \in BFBCMins }

BuildInputs == { x \in Inputs : Len(x) <= MaxBuildLen }

\* nothing has been constructed yet
InitBuild ==
  /\ input = << >>
  /\ chunker = [inner |-> [kind |-> "none"]]
  /\ view = "none"
  /\ stream = [status |-> "none"]
  /\ last = "Init"
  /\ events = << >>
  /\ cuts = << >>
  /\ panicked = FALSE
  /\ wc = Chunker_whole_chunks
  /\ wc_out = << >>
  /\ ac = [chunks |-> << >>, result |-> "Running", error |-> None]
  /\ ci = Chunker_chunks
  /\ ci_out = << >>
  /\ sl = [pos |-> 0]
  /\ sl_out = << >>
  /\ errs = << >>
  /\ calls = << >>
  /\ ops = << >>
  /\ resets = 0

\* Chunker::new(strategy), the strategy coming from its own constructor
BuildNew ==
  /\ view = "none" /\ calls = << >>
  /\ \E s \in BuildStrategies :
       /\ chunker' = Chunker_new(s)
       /\ calls' = << [call |-> "new", strategy |-> s, ok |-> TRUE] >>
  /\ UNCHANGED << input, view, stream, last, events, cuts, panicked, wc,
                  wc_out, ac, ci, ci_out, sl, sl_out, errs, ops, resets >>

\* chunker.max_size(max): the assertion fails, or the chunker is wrapped
BuildMaxSize ==
  /\ view = "none" /\ Len(calls) = 1 /\ ~panicked
  /\ \E max \in BuildLimits :
       /\ calls' = Append(calls, [call |-> "max_size", max |-> max,
                                   ok |-> Chunker_max_size_accepts(max)])
       /\ panicked' = ~Chunker_max_size_accepts(max)
       /\ chunker' = IF Chunker_max_size_accepts(max)
                     THEN Chunker_max_size(chunker, max) ELSE chunker
  /\ UNCHANGED << input, view, stream, last, events, cuts, wc, wc_out, ac,
                  ci, ci_out, sl, sl_out, errs, ops, resets >>

\* a view is built from the chunker: stream / whole_chunks / all_chunks /
\* chunks on a reader, or slices on a buffer
BuildView ==
  /\ view = "none" /\ calls # << >> /\ ~panicked
  /\ \E v \in {"stream", "slices"}, x \in BuildInputs :
       /\ view' = v
       /\ input' = x
       /\ stream' = Chunker_stream(chunker, x)
       /\ sl' = Chunker_slices(chunker)
  /\ UNCHANGED << chunker, last, events, cuts, panicked, wc, wc_out, ac, ci,
                  ci_out, sl_out, errs, calls, ops, resets >>

NextBuild == BuildNew \/ BuildMaxSize \/ BuildView \/ Next

\* the runs from the first builder call on
SpecBuild == InitBuild /\ [][NextBuild]_vars

\* ------------------------------------------------------------------------
\* Properties
\* ------------------------------------------------------------------------

RECURSIVE DataConcat(_)
\* the payloads of the Data items of a list of events, concatenated
DataConcat(evs) ==
  IF evs = << >> THEN << >>
  ELSE (IF Head(evs).t = "Data" THEN Head(evs).d ELSE << >>)
       \o DataConcat(Tail(evs))

RECURSIVE GroupEvents(_, _)
\* the chunks a list of events spells: the Data payloads between Ends
GroupEvents(evs, acc) ==
  IF evs = << >> THEN << >>
  ELSE IF Head(evs).t = "Data"
       THEN GroupEvents(Tail(evs), acc \o Head(evs).d)
       ELSE << acc >> \o GroupEvents(Tail(evs), << >>)

RECURSIVE SumLengths(_)
SumLengths(infos) ==
  IF infos = << >> THEN 0 ELSE Head(infos).length + SumLengths(Tail(infos))

\* the stream has returned None: the run of read() calls is complete
StreamDone == view = "stream" /\ last = "None"

\* the number of bytes the reader has delivered so far
BytesRead == Len(input) - Len(stream.reader)

\* the strategy of the chunker, under its size limit if it has one
BaseKind == IF chunker.inner.kind = "SizeLimited"
            THEN chunker.inner.inner.kind ELSE chunker.inner.kind

\* C1 (Concatenation): at every moment the Data payloads returned so far,
\* concatenated in order, are exactly the bytes read from the reader minus
\* those still waiting in buffer[pos..len], i.e. a prefix of the input with
\* nothing repeated or skipped; once read() has returned None they are the
\* whole input.
C1_Concatenation ==
  view = "stream" =>
    /\ DataConcat(events)
         = SubSeq(input, 1, BytesRead - (stream.len - stream.pos))
    /\ last = "None" => DataConcat(events) = input

\* C1 witness: a complete run over a 3-byte-or-longer input, delivered in
\* more than one read, with a boundary found before the last byte.
C1_Witness ==
  /\ StreamDone
  /\ Len(input) >= 3
  /\ Len(cuts) >= 1 /\ cuts[1] < Len(input) - 1
  /\ \E i \in 1..Len(events) :
       events[i].t = "Data" /\ Len(events[i].d) < Len(input)
  /\ Len(events) >= 5

\* C2 (Non-emptiness), as claimed: every chunk yielded by whole_chunks and
\* all_chunks, every descriptor yielded by chunks and every slice yielded by
\* slices has length >= 1.  The code breaks it on the empty input.
C2_NonEmpty ==
  /\ \A i \in 1..Len(wc_out) : Len(wc_out[i]) >= 1
  /\ \A i \in 1..Len(ac.chunks) : Len(ac.chunks[i]) >= 1
  /\ \A i \in 1..Len(ci_out) : ci_out[i].length >= 1
  /\ \A i \in 1..Len(sl_out) : Len(sl_out[i]) >= 1

\* C3 (Event order), as claimed: the events are groups of one or more Data
\* followed by one End: an End is returned only right after a Data, and a
\* complete run does not end on a Data.  The code breaks it on the empty
\* input, where the first and only event is End.
C3_EventOrder ==
  /\ \A i \in 1..Len(events) :
       events[i].t = "End" => i > 1 /\ events[i - 1].t = "Data"
  /\ StreamDone /\ events # << >> => events[Len(events)].t = "End"

\* the strategies C4 names
SeamKinds ==
  { "ZPAQ", "Gear", "NCGear", "AE", "RAM", "MaybeOptimizedRAM", "MII", "PCI",
    "BFBC", "FixedSize" }

RECURSIVE OneViewCuts(_, _, _)
\* what follows the strategy's answer r on the view data, which starts at
\* absolute offset base
OneViewAfter(r, data, base) ==
  IF r.panic \/ ~IsSome(r.res) \/ Len(data) <= Unwrap(r.res) THEN << >>
  ELSE << base + Unwrap(r.res) >>
       \o OneViewCuts(ChunkerImpl_reset(r.st),
                      SubSeq(data, Unwrap(r.res) + 2, Len(data)),
                      base + Unwrap(r.res) + 1)

\* the absolute cut offsets when all the remaining input is handed to the
\* strategy s in one view, the strategy being reset after each cut
OneViewCuts(s, data, base) ==
  IF data = << >> THEN << >>
  ELSE OneViewAfter(ChunkerImpl_find_boundary(s, data), data, base)

IsPrefix(p, q) == Len(p) <= Len(q) /\ p = SubSeq(q, 1, Len(p))

\* C4 (Seam invariance): for the ten named strategies, alone or under
\* SizeLimited, the cuts the engine has reported so far are, for every way
\* the input is split into reads, the first cuts of the one-view run, and
\* when the stream ends they are all of them.
C4_SeamInvariance ==
  view = "stream" /\ BaseKind \in SeamKinds =>
    /\ IsPrefix(cuts, OneViewCuts(chunker.inner, input, 0))
    /\ last = "None" => cuts = OneViewCuts(chunker.inner, input, 0)

\* C4 witness: a complete run in which a chunk of two or more bytes reached
\* the strategy in two views: a Data without a cut, then a Data ending at a
\* cut.
C4_Witness ==
  /\ StreamDone /\ BaseKind \in SeamKinds
  /\ Len(cuts) >= 1
  /\ \E i \in 1..(Len(events) - 2) :
       /\ events[i].t = "Data" /\ events[i + 1].t = "Data"
       /\ events[i + 2].t = "End"
       /\ DataBytes(SubSeq(events, 1, i + 1)) - 1 = cuts[1]

RECURSIVE SlicesAll(_, _)
\* the slices the Slices iterator yields from state s on, up to its None
SlicesRest(r, buffer) ==
  IF r.item.t = "Data" THEN << r.item.d >> \o SlicesAll(r.sl, buffer)
  ELSE << >>

SlicesAll(s, buffer) == SlicesRest(Slices_next(s, buffer), buffer)

\* C5 (slices vs whole_chunks), as claimed: when the stream has ended, the
\* vectors whole_chunks yielded are the slices that Chunker::slices yields on
\* the same bytes, one for one.  The code breaks it on the empty input.
C5_SlicesEqualWholeChunks ==
  StreamDone => wc_out = SlicesAll(Chunker_slices(chunker), input)

\* the number of End items in a list of events
NumEnds(evs) == Cardinality({ i \in 1..Len(evs) : evs[i].t = "End" })

\* C6 (engine-based views): the vectors whole_chunks has yielded are the Data
\* payloads between consecutive Ends of the stream, one per End, and
\* all_chunks collects the same vectors in the same order, returning them
\* when the stream ends.
C6_WholeChunksFollowStream ==
  view = "stream" =>
    /\ wc_out = GroupEvents(events, << >>)
    /\ Len(wc_out) = NumEnds(events)
    /\ ac.chunks = wc_out
    /\ (ac.result = "Ok") = (last = "None")

\* C6 witness: a complete run with two or more chunks, one of which arrived
\* in more than one Data.
C6_Witness ==
  /\ StreamDone /\ Len(wc_out) >= 2 /\ ac.result = "Ok"
  /\ Len(events) > 2 * Len(wc_out)

\* C7 (chunk descriptors): the first descriptor starts at 0, each next one
\* starts where the previous one ends, the k-th length is the length of the
\* k-th whole_chunks vector, and when the stream ends the lengths add up to
\* the input length.
C7_Descriptors ==
  view = "stream" =>
    /\ ci_out # << >> => ci_out[1].start = 0
    /\ \A k \in 1..(Len(ci_out) - 1) :
         ci_out[k + 1].start = ci_out[k].start + ci_out[k].length
    /\ Len(ci_out) = Len(wc_out)
    /\ \A k \in 1..Len(ci_out) : ci_out[k].length = Len(wc_out[k])
    /\ last = "None" => SumLengths(ci_out) = Len(input)

\* C7 witness: a complete run that yielded three descriptors.
C7_Witness ==
  /\ StreamDone /\ Len(ci_out) >= 3 /\ ci_out[3].start >= 2

\* C8 (Size limit), as claimed: no chunk of a chunker built with max_size(M)
\* is longer than M bytes.  The code breaks it with TTTDChunker inside.
C8_SizeLimit ==
  chunker.inner.kind = "SizeLimited" =>
    /\ \A i \in 1..Len(wc_out) : Len(wc_out[i]) <= chunker.inner.max_size
    /\ \A i \in 1..Len(sl_out) : Len(sl_out[i]) <= chunker.inner.max_size

RECURSIVE LimitedCuts(_, _, _, _)
\* the chunk that starts at base ends at the first cut r of the fresh inner
\* strategy if that lies in the first M bytes, otherwise after M bytes
LimitedAfter(r, S, M, data, base) ==
  IF IsSome(r.res) /\ Unwrap(r.res) < M /\ Unwrap(r.res) < Len(data)
  THEN << base + Unwrap(r.res) >>
       \o LimitedCuts(S, M, SubSeq(data, Unwrap(r.res) + 2, Len(data)),
                      base + Unwrap(r.res) + 1)
  ELSE IF Len(data) >= M
  THEN << base + M - 1 >>
       \o LimitedCuts(S, M, SubSeq(data, M + 1, Len(data)), base + M)
  ELSE << >>

\* the reference procedure of C9: the cuts of max_size(M) around the freshly
\* constructed strategy S on data, which starts at absolute offset base
LimitedCuts(S, M, data, base) ==
  IF data = << >> THEN << >>
  ELSE LimitedAfter(ChunkerImpl_find_boundary(S, data), S, M, data, base)

\* C9 (Size-limiter semantics), as claimed: the cuts of max_size(M) around S
\* are those of the reference procedure, in the engine under every split of
\* the input into reads and in Slices.  The code breaks it with TTTDChunker
\* inside.
C9_LimiterSemantics ==
  chunker.inner.kind = "SizeLimited" /\ last = "None" =>
    cuts = LimitedCuts(chunker.inner.inner, chunker.inner.max_size, input, 0)

\* ceil(n / c)
CeilDiv(n, c) == (n + c - 1) \div c

\* C10 (Fixed-Size), as claimed: FixedSizeChunker(C) without a size limit
\* yields ceil(N/C) chunks, all of length C except the last, which has the
\* remaining bytes.  The code breaks it for N = 0, where it yields one empty
\* chunk.
C10_FixedSize ==
  StreamDone /\ chunker.inner.kind = "FixedSize" =>
    LET C == chunker.inner.chunk_size
        N == Len(input)
        K == CeilDiv(N, C)
    IN  /\ Len(wc_out) = K
        /\ \A k \in 1..Len(wc_out) :
             Len(wc_out[k]) = IF k < K THEN C ELSE N - C * (K - 1)

\* C11 (Reader-error propagation): in the read() step in which the reader's
\* k-th failure happens, read() returns that error, no Data or End is added
\* and no chunk or descriptor is yielded; whole_chunks and chunks yield that
\* error as their item; all_chunks, unless it had returned already, returns
\* the first error and returns no other error; when no reader call failed
\* and the stream has ended, all_chunks has returned Ok with the chunks of
\* the input in order.
C11_ErrorPropagation ==
  view = "stream" =>
    /\ \A k \in 1..Len(errs) :
         /\ errs[k].read = k
         /\ errs[k].wc = Some(k) /\ errs[k].ci = Some(k)
         /\ errs[k].events = 0 /\ errs[k].chunks = 0
    /\ last = "Err" => errs # << >>
    /\ errs # << >> => ac.result # "Running"
    /\ ac.result = "Err" => errs # << >> /\ ac.error = Some(errs[1].read)
    /\ errs = << >> /\ last = "None" =>
         /\ ac.result = "Ok"
         /\ ac.chunks = GroupEvents(events, << >>)
         /\ DataConcat(events) = input

\* C11 witness: the reader failed after two chunks had been yielded, and
\* all_chunks returned that error.
C11_Witness ==
  /\ view = "stream" /\ last = "Err"
  /\ Len(errs) = 1 /\ Len(wc_out) >= 2 /\ Len(ci_out) >= 2
  /\ ac.result = "Err" /\ ac.error = Some(1)

\* C12 (State after a reader error), as claimed: after read() returned a
\* reader error the buffer is used up (pos = len), so that the next read()
\* calls the reader before it returns an event, and the Data payloads are a
\* prefix of the input: no byte is emitted a second time.  The code breaks
\* it: pos is set to 0 before the failing call and len keeps its old value.
C12_StateAfterError ==
  view = "stream" =>
    /\ last = "Err" => stream.pos = stream.len
    /\ IsPrefix(DataConcat(events), input)

\* C13 (Configuration error max_size(0)): a max_size call is accepted
\* exactly when max >= 1; an accepted call gives a chunker limited to max;
\* after a rejected call no view exists and nothing was read or emitted.
C13_MaxSizeZero ==
  \A i \in 1..Len(calls) :
    calls[i].call = "max_size" =>
      /\ calls[i].ok = (calls[i].max >= 1)
      /\ calls[i].ok =>
           /\ ~(view = "none" /\ panicked)
           /\ chunker.inner.kind = "SizeLimited"
           /\ chunker.inner.max_size = calls[i].max
      /\ ~calls[i].ok =>
           /\ panicked /\ view = "none"
           /\ events = << >> /\ sl_out = << >> /\ wc_out = << >>

\* C13 witness: max_size(0) was called and rejected.
C13_Witness ==
  /\ Len(calls) = 2 /\ calls[2].call = "max_size" /\ calls[2].max = 0
  /\ panicked /\ view = "none"

\* C14 (Configuration error BFBC), as claimed: no BFBCChunker with
\* min_chunk_size < 2 comes out of its constructor, so none processes
\* bytes.  The code breaks it: BFBCChunker::new checks nothing.
C14_BFBCMinRejected ==
  \A i \in 1..Len(calls) :
    calls[i].call = "new" /\ calls[i].strategy.kind = "BFBC"
      /\ calls[i].strategy.min_chunk_size < 2
    => ~calls[i].ok /\ view = "none"

\* C15 (Reset correctness): whatever find_boundary calls the strategy has
\* seen, reset() puts every state field back to its value in the freshly
\* constructed instance, for each strategy alone and under SizeLimited; in
\* particular that is the strategy's state right after the engine's End.
C15_ResetCorrectness ==
  /\ view = "stream" =>
       /\ ChunkerImpl_reset(stream.inner) = chunker.inner
       /\ last = "End" /\ cuts # << >> /\ stream.status = "End"
            /\ DataBytes(events) = cuts[Len(cuts)] + 1
          => stream.inner = chunker.inner
  /\ view = "slices" =>
       /\ ChunkerImpl_reset(sl.inner) = chunker.inner
       /\ cuts # << >> /\ sl.pos = cuts[Len(cuts)] + 1
          => sl.inner = chunker.inner

\* C15 witness: a size-limited strategy saw a chunk in two views, the
\* second ending at a cut, and has been reset by the engine.
C15_Witness ==
  /\ view = "stream" /\ last = "End" /\ cuts # << >>
  /\ chunker.inner.kind = "SizeLimited"
  /\ Len(events) >= 3
  /\ events[Len(events) - 1].t = "Data" /\ events[Len(events) - 2].t = "Data"
  /\ stream.inner = chunker.inner

\* the rule of C16 for one byte b: the new h, by the decimal constants
ZPAQRuleHash(h, c1, o1, b) ==
  IF b = o1[c1] THEN U32Mul(U32(314159265), U32Add(U32Add(h, U32(b)), U32(1)))
  ELSE U32Mul(U32(271828182), U32Add(U32Add(h, U32(b)), U32(1)))

RECURSIVE ZPAQRuleCuts(_, _, _, _, _, _)
\* the absolute offsets at which the rule of C16 cuts data from byte i on
\* (counted from 0), h, c1, o1 being the state before byte i
ZPAQRuleCuts(k, data, i, h, c1, o1) ==
  IF i >= Len(data) THEN << >>
  ELSE IF U32LtPow2(ZPAQRuleHash(h, c1, o1, data[i + 1]), 32 - k)
  THEN << i >> \o ZPAQRuleCuts(k, data, i + 1, U32Zero, 0,
                               [j \in 0..255 |-> 0])
  ELSE ZPAQRuleCuts(k, data, i + 1, ZPAQRuleHash(h, c1, o1, data[i + 1]),
                    data[i + 1], [o1 EXCEPT ![c1] = data[i + 1]])

\* the chunks "de", "fghijklmnopqr", "stuvwxyz12345", "67890"
ZPAQ_example_chunks ==
  << SubSeq(ZPAQ_example, 1, 2), SubSeq(ZPAQ_example, 3, 15),
     SubSeq(ZPAQ_example, 16, 28), SubSeq(ZPAQ_example, 29, 33) >>

\* C16 (ZPAQ rule): for an unwrapped ZPAQ(k) the cuts are those of the rule
\* "h = HM1*(h+b+1) if b = o1[c1] else HM2*(h+b+1) mod 2^32, o1[c1] = b,
\* c1 = b, cut when h < 2^(32-k)" restarted from zero after each cut; and
\* ZPAQ(3) on the 33-byte example gives the chunks de / fghijklmnopqr /
\* stuvwxyz12345 / 67890, descriptors (0,2) (2,13) (15,13) (28,5), in every
\* view.
C16_ZPAQRule ==
  chunker.inner.kind = "ZPAQ" =>
    /\ IsPrefix(cuts, ZPAQRuleCuts(32 - chunker.inner.nbits, input, 0,
                                   U32Zero, 0, [j \in 0..255 |-> 0]))
    /\ last = "None" =>
         cuts = ZPAQRuleCuts(32 - chunker.inner.nbits, input, 0,
                             U32Zero, 0, [j \in 0..255 |-> 0])
    /\ last = "None" /\ input = ZPAQ_example /\ chunker.inner.nbits = 29 =>
         IF view = "stream"
         THEN /\ wc_out = ZPAQ_example_chunks
              /\ ac.chunks = ZPAQ_example_chunks
              /\ ci_out = << ChunkInfo(0, 2), ChunkInfo(2, 13),
                             ChunkInfo(15, 13), ChunkInfo(28, 5) >>
         ELSE sl_out = ZPAQ_example_chunks

\* C16 witness: the run of ZPAQ(3) over the 33-byte example through the
\* reader has ended with four descriptors.
C16_Witness ==
  /\ StreamDone /\ input = ZPAQ_example
  /\ chunker.inner.kind = "ZPAQ" /\ chunker.inner.nbits = 29
  /\ Len(ci_out) = 4 /\ Len(cuts) >= 3

RECURSIVE BFBCRuleCuts(_, _, _, _, _)
\* the absolute offsets at which the rule of C17 cuts data from byte i on,
\* the current chunk starting at offset start: byte i is ingested first, so
\* pos = i - start + 1, and the pair is (previous byte of the chunk, byte i)
BFBCRuleCuts(P, M, data, i, start) ==
  IF i >= Len(data) THEN << >>
  ELSE IF /\ i - start + 1 >= M
          /\ i > start
          /\ \E j \in 1..Len(P) : P[j] = << data[i], data[i + 1] >>
  THEN << i >> \o BFBCRuleCuts(P, M, data, i + 1, i + 1)
  ELSE BFBCRuleCuts(P, M, data, i + 1, start)

\* C17 (BFBC rule), as claimed: an unwrapped BFBCChunker(P, M) cuts at the
\* first byte of the chunk for which pos >= M, pos counting that byte, and
\* (previous byte, byte) is in P; on 00 0A 0B 0A 0B with P = [(0A,0B)] and
\* M = 2 the first find_boundary from the fresh state returns offset 2.  The
\* code compares before it ingests, with pos > M, and returns 4 there.
C17_BFBCRule ==
  chunker.inner.kind = "BFBC" =>
    /\ last = "None" =>
         cuts = BFBCRuleCuts(chunker.inner.frequent_byte_pairs,
                             chunker.inner.min_chunk_size, input, 0, 0)
    /\ view = "slices" /\ input = BFBC_example /\ last # "Init" =>
         cuts # << >> /\ cuts[1] = 2

RECURSIVE TTTDRuleCuts(_, _, _, _, _, _)
\* the absolute offsets at which the rule of C18 cuts data from byte i on;
\* st is the hash state before byte i, start the offset of the first byte
\* of the chunk, backup the offset of the byte at which the backup
\* condition last held in this chunk (None: not yet)
TTTDRuleAt(s, data, i, st, start, backup) ==
  IF i - start + 1 >= s.min_chunk_size
  THEN IF i - start + 1 >= s.max_chunk_size
       THEN IF IsSome(backup)
            THEN << Unwrap(backup) >>
                 \o TTTDRuleCuts(s, data, Unwrap(backup) + 1, TTTDState_default,
                                 Unwrap(backup) + 1, None)
            ELSE << i >> \o TTTDRuleCuts(s, data, i + 1, TTTDState_default,
                                         i + 1, None)
       ELSE IF U32Mod(st.hash, s.divisor) = s.divisor - 1
       THEN << i >> \o TTTDRuleCuts(s, data, i + 1, TTTDState_default,
                                    i + 1, None)
       ELSE TTTDRuleCuts(
              s, data, i + 1, st, start,
              IF U32Mod(st.hash, s.backup_divisor) = s.backup_divisor - 1
              THEN Some(i) ELSE backup)
  ELSE TTTDRuleCuts(s, data, i + 1, st, start, backup)

TTTDRuleCuts(s, data, i, st, start, backup) ==
  IF i >= Len(data) THEN << >>
  ELSE TTTDRuleAt(s, data, i, TTTDState_ingest(st, data[i + 1]), start,
                  backup)

\* C18 (TTTD forced cut), as claimed: with every chunk handed to an
\* unwrapped TTTDChunker from its first byte in one view (Chunker::slices), a
\* chunk cut at pos >= max_chunk_size ends at the byte at which the backup
\* condition last held, or at the current byte when it never held; the other
\* cuts are at the byte whose hash meets the divisor.  The code returns
\* backup_pos, the count of bytes up to the backup byte, as the offset, so
\* the chunk ends one byte later.
C18_TTTDForcedCut ==
  view = "slices" /\ chunker.inner.kind = "TTTD" /\ last = "None" =>
    cuts = TTTDRuleCuts(chunker.inner, input, 0, TTTDState_default, 0, None)

\* C19 (TTTD across seams), as claimed: with an unwrapped TTTDChunker under
\* the engine, every offset find_boundary returns lies inside its view (the
\* engine's assertion pos + split < len holds) and the cuts are, for every
\* split of the input into reads, those of the one-view run.  The code
\* breaks both.
C19_TTTDSeams ==
  view = "stream" /\ chunker.inner.kind = "TTTD" =>
    /\ ~panicked
    /\ IsPrefix(cuts, OneViewCuts(chunker.inner, input, 0))
    /\ last = "None" => cuts = OneViewCuts(chunker.inner, input, 0)

RECURSIVE RAMRuleCuts(_, _, _, _)
\* the absolute offsets at which the rule of C20 cuts data from byte i on,
\* the chunk starting at offset start: the first W bytes of the chunk are
\* the prefix, and the cut is at the first byte after them that is >= the
\* maximum of the prefix
RAMRuleCuts(W, data, i, start) ==
  IF i >= Len(data) THEN << >>
  ELSE IF /\ i - start >= W
          /\ \A j \in (start + 1)..(start + W) : data[i + 1] >= data[j]
  THEN << i >> \o RAMRuleCuts(W, data, i + 1, i + 1)
  ELSE RAMRuleCuts(W, data, i + 1, start)

\* C20 (RAM rule), as claimed: an unwrapped RAMChunker(W) cuts each chunk at
\* the first byte at chunk-relative position >= W whose value is >= the
\* maximum of the first W bytes of the chunk.  The code cuts only at
\* positions > W and goes on raising its maximum after the prefix.
C20_RAMRule ==
  chunker.inner.kind = "RAM" /\ last = "None" =>
    cuts = RAMRuleCuts(chunker.inner.window_size, input, 0, 0)

RECURSIVE MIIRuleCuts(_, _, _, _)
\* the absolute offsets at which the rule of C21 cuts data from byte i on,
\* the chunk starting at offset start: the cut is at the first byte i such
\* that the T bytes before it are in the chunk and each of the last T steps
\* up to i is a strict increase
MIIRuleCuts(T, data, i, start) ==
  IF i >= Len(data) THEN << >>
  ELSE IF /\ i - T >= start
          /\ \A j \in (i - T + 1)..i : data[j + 1] > data[j]
  THEN << i >> \o MIIRuleCuts(T, data, i + 1, i + 1)
  ELSE MIIRuleCuts(T, data, i + 1, start)

\* the lengths of the chunks that end at the cuts cs, the first chunk
\* starting at offset from
RECURSIVE CutLengths(_, _)
CutLengths(cs, from) ==
  IF cs = << >> THEN << >>
  ELSE << Head(cs) + 1 - from >> \o CutLengths(Tail(cs), Head(cs) + 1)

RECURSIVE OneBits(_, _, _)
\* the number of 1-bits in data[from..to] (offsets counted from 0)
OneBits(data, from, to) ==
  IF from > to THEN 0
  ELSE count_ones(data[from + 1]) + OneBits(data, from + 1, to)

RECURSIVE PCIRuleCuts(_, _, _, _, _)
\* the absolute offsets at which the rule of C22 cuts data from byte i on,
\* the chunk starting at offset start: the cut is at the first byte with
\* at least W bytes of the chunk up to it and at least K 1-bits in the
\* last W of them
PCIRuleCuts(W, K, data, i, start) ==
  IF i >= Len(data) THEN << >>
  ELSE IF /\ i + 1 - start >= W
          /\ OneBits(data, i + 1 - W, i) >= K
  THEN << i >> \o PCIRuleCuts(W, K, data, i + 1, i + 1)
  ELSE PCIRuleCuts(W, K, data, i + 1, start)

\* C22 (PCI rule and minimum length): an unwrapped PCIChunker with window
\* W >= 1 and threshold K cuts at the first byte at which at least W bytes
\* have been ingested since the last reset and the last W ingested bytes
\* hold at least K 1-bits, for every way the input is split into views;
\* every chunk a PCI cut terminates has length >= W.
C22_PCIRule ==
  chunker.inner.kind = "PCI" =>
    /\ IsPrefix(cuts, PCIRuleCuts(chunker.inner.W,
                                  chunker.inner.one_bits_threshold,
                                  input, 0, 0))
    /\ last = "None" =>
         cuts = PCIRuleCuts(chunker.inner.W,
                            chunker.inner.one_bits_threshold, input, 0, 0)
    /\ \A n \in DOMAIN cuts : CutLengths(cuts, 0)[n] >= chunker.inner.W

\* C22 witness: a complete run through the reader in which PCI cut a chunk
\* that reached it in two views, its 1-bits spread over both.
C22_Witness ==
  /\ StreamDone /\ chunker.inner.kind = "PCI"
  /\ Len(events) >= 3 /\ cuts # << >> /\ cuts[1] = 1
  /\ events[1] = ItemData(<< 1 >>) /\ events[2] = ItemData(<< 1 >>)
  /\ events[3].t = "End"

\* the offset of the first occurrence of the largest byte of data[from..to]
\* (offsets counted from 0)
FirstMaxOffset(data, from, to) ==
  CHOOSE m \in from..to :
    /\ \A j \in from..to : data[j + 1] <= data[m + 1]
    /\ \A j \in from..(m - 1) : data[j + 1] < data[m + 1]

RECURSIVE AERuleCuts(_, _, _, _)
\* the absolute offsets at which the rule of C23 cuts data from byte i on,
\* the chunk starting at offset start: the cut is at the first byte that
\* lies exactly W bytes after the first occurrence of the largest byte of
\* the chunk so far
AERuleCuts(W, data, i, start) ==
  IF i >= Len(data) THEN << >>
  ELSE IF i = FirstMaxOffset(data, start, i) + W
  THEN << i >> \o AERuleCuts(W, data, i + 1, i + 1)
  ELSE AERuleCuts(W, data, i + 1, start)

\* C23 (AE rule): an unwrapped AEChunker with window W >= 1 cuts exactly W
\* bytes after the first occurrence of the running maximum of the chunk
\* (a byte above the maximum becomes the maximum, any other byte cuts iff
\* its position is max_position + W), however the chunk is split across
\* views; every chunk an AE cut terminates has length >= W + 1.
C23_AERule ==
  chunker.inner.kind = "AE" =>
    /\ IsPrefix(cuts, AERuleCuts(chunker.inner.window_size, input, 0, 0))
    /\ last = "None" =>
         cuts = AERuleCuts(chunker.inner.window_size, input, 0, 0)
    /\ \A n \in DOMAIN cuts :
         CutLengths(cuts, 0)[n] >= chunker.inner.window_size + 1

\* C23 witness: a complete run through the reader in which the maximum of
\* the first chunk is not its first byte and arrived in one view, and the
\* byte W after it, where AE cut, in the next view.
C23_Witness ==
  /\ StreamDone /\ chunker.inner.kind = "AE"
  /\ chunker.inner.window_size >= 1
  /\ Len(events) >= 3 /\ cuts # << >>
  /\ events[1].t = "Data" /\ events[2].t = "Data" /\ events[3].t = "End"
  /\ Len(events[1].d) >= 2
  /\ FirstMaxOffset(input, 0, cuts[1]) = Len(events[1].d) - 1
  /\ cuts[1] = Len(events[1].d) - 1 + chunker.inner.window_size

RECURSIVE GearRuleHash(_, _, _)
\* the hash of C24 after the bytes data[start..i] (offsets counted from 0),
\* from h = 0: the sum of TABLE[b] * 2^(distance to byte i) modulo 2^32
GearRuleHash(data, start, i) ==
  IF i < start THEN U32Zero
  ELSE U32Add(U32Mul(TABLE[data[start + 1] + 1], U32(Pow2(i - start))),
              GearRuleHash(data, start + 1, i))

RECURSIVE GearRuleCuts(_, _, _, _, _, _)
\* the absolute offsets at which the rule of C24 cuts data from byte i on,
\* the chunk starting at offset start: the mask is L while the number of
\* bytes of the chunk, byte i included, is <= T, and U after that
GearRuleCuts(L, U, T, data, i, start) ==
  IF i >= Len(data) THEN << >>
  ELSE IF U32And(GearRuleHash(data, start, i),
                 IF i + 1 - start <= T THEN L ELSE U) = U32Zero
  THEN << i >> \o GearRuleCuts(L, U, T, data, i + 1, i + 1)
  ELSE GearRuleCuts(L, U, T, data, i + 1, start)

\* the cuts of the rule of C24 for the strategy of the chunker: a plain
\* GearChunker(M) is the rule with L = U = M
GearRuleOf(c, data) ==
  IF c.kind = "Gear" THEN GearRuleCuts(c.mask, c.mask, 0, data, 0, 0)
  ELSE GearRuleCuts(c.lower_mask, c.upper_mask, c.target_chunk_size,
                    data, 0, 0)

\* C24 (Gear / Normalized-Chunking Gear rule): both chunkers compute
\* h = ((h << 1) + TABLE[b]) mod 2^32 over the bytes since the last reset;
\* GearChunker(M) cuts at the first byte with h & M = 0, and
\* NormalizedChunkingGearChunker(L, U, T) at the first byte with h & L = 0
\* while the bytes since reset, the current one included, are <= T, and
\* with h & U = 0 once they exceed T.
C24_GearRule ==
  chunker.inner.kind \in {"Gear", "NCGear"} =>
    /\ IsPrefix(cuts, GearRuleOf(chunker.inner, input))
    /\ last = "None" => cuts = GearRuleOf(chunker.inner, input)

\* C24 witness: a complete run of the normalized chunker through the
\* reader in which the first byte of the input passes the upper mask but
\* not the lower one, so that it is not a cut, and the chunk is cut later,
\* under the upper mask, at a byte that reached the strategy in a second
\* view.
C24_Witness ==
  /\ StreamDone /\ chunker.inner.kind = "NCGear"
  /\ cuts # << >> /\ cuts[1] >= chunker.inner.target_chunk_size
  /\ U32And(GearRuleHash(input, 0, 0), chunker.inner.upper_mask) = U32Zero
  /\ U32And(GearRuleHash(input, 0, 0), chunker.inner.lower_mask) # U32Zero
  /\ Len(events) >= 3
  /\ events[1].t = "Data" /\ events[2].t = "Data" /\ events[3].t = "End"

\* the strategies C25 lists as keeping a position counter
CountingKinds ==
  { "FixedSize", "AE", "RAM", "Gear", "NCGear", "PCI", "BFBC", "TTTD",
    "SizeLimited" }

\* the position counter of the strategy s: the wrapper's own pos for
\* SizeLimited, state.pos for the others
PositionCounter(s) == IF s.kind = "SizeLimited" THEN s.pos ELSE s.state.pos

\* the offset of the first byte the strategy of the stream was given after
\* its last reset: the engine resets it when it returns the End of a cut,
\* so while that End is pending (AtSplit) the last cut does not count yet
LastResetOffset ==
  IF stream.status = "AtSplit"
  THEN IF Len(cuts) >= 2 THEN cuts[Len(cuts) - 1] + 1 ELSE 0
  ELSE IF cuts # << >> THEN cuts[Len(cuts)] + 1 ELSE 0

\* the bytes the strategy has observed since its last reset: those handed
\* to it and returned as Data, up to and including the byte of a cut
ObservedSinceReset == DataBytes(events) - LastResetOffset

IngestCountingKinds == { "Gear", "NCGear", "PCI" }

EndOfCut ==
  /\ last = "End" /\ cuts # << >> /\ Len(events) >= 2
  /\ events[Len(events)].t = "End" /\ events[Len(events) - 1].t = "Data"
  /\ DataBytes(events) = cuts[Len(cuts)] + 1

\* C26 (Reset ordering): the engine has called reset() once for each cut
\* reported, except a cut whose End is still pending; a read() call resets
\* only when it returns the End of a cut, and then it calls nothing else;
\* so every find_boundary call finds all earlier cuts reset, and there is
\* no reset on a Data, on the terminal End or on a read error.  Slices
\* resets once per cut, in the call that reported it, after find_boundary.
C26_ResetOrdering ==
  /\ view = "stream" =>
       /\ resets = Len(cuts) - (IF stream.status = "AtSplit" THEN 1 ELSE 0)
       /\ (\E k \in DOMAIN ops : ops[k] = "reset") = EndOfCut
       /\ EndOfCut => ops = << "reset" >>
       /\ last \in {"Data", "Err", "None", "Panic"} =>
            \A k \in DOMAIN ops : ops[k] # "reset"
       /\ (\E k \in DOMAIN ops : ops[k] = "find_boundary")
            => last \in {"Data", "Panic"}
  /\ view = "slices" =>
       /\ resets = Len(cuts)
       /\ ops \in { << >>, << "find_boundary" >>,
                    << "find_boundary", "reset" >> }
       /\ ops = << "find_boundary", "reset" >>
            <=> last = "Data" /\ cuts # << >> /\ sl.pos = cuts[Len(cuts)] + 1

\* C26 witness: a run through the reader with two cuts, each reset once,
\* a read error in between or after, and a terminal End at end of input
\* for which the reader was called and the strategy was not reset.
C26_Witness ==
  /\ view = "stream" /\ last = "End" /\ ops = << "reader" >>
  /\ Len(cuts) >= 2 /\ resets = Len(cuts)
  /\ errs # << >>

\* C27 (Pending split step): when status is AtSplit the next read() call
\* returns End, sets status to End and resets the strategy, without calling
\* the reader or find_boundary and leaving reader, buffer, pos and len as
\* they were; the bytes left in buffer[pos..len] are handed to the strategy
\* by the call after it, which does not call the reader either.
C27_PendingSplit ==
  [][ view = "stream" =>
        /\ stream.status = "AtSplit" =>
             /\ last' = "End" /\ events' = Append(events, ItemEnd)
             /\ stream' = [stream EXCEPT
                              !.status = "End",
                              !.inner = ChunkerImpl_reset(stream.inner)]
             /\ ops' = << "reset" >>
             /\ cuts' = cuts
        /\ last = "End" /\ ops = << "reset" >> /\ stream.pos < stream.len =>
             /\ ops' = << "find_boundary" >>
             /\ stream'.buffer = stream.buffer /\ stream'.len = stream.len
             /\ stream'.reader = stream.reader
             /\ last' = "Data" =>
                  events'[Len(events')].d
                    = Slice(stream.buffer, stream.pos, stream'.pos)
    ]_vars

\* C27 witness: the pending End has been returned with bytes of the same
\* read still waiting in the buffer, after the chunk's Data.
C27_Witness ==
  /\ view = "stream" /\ last = "End" /\ ops = << "reset" >>
  /\ stream.status = "End"
  /\ 0 < stream.pos /\ stream.pos < stream.len
  /\ stream.inner = chunker.inner

\* the strategies C28 names: all but TTTD
AssertKinds == SeamKinds \cup { "PCINonConst" }

\* C28 (Assertion validity): for ZPAQ, Gear, NC-Gear, AE, RAM (both
\* variants), MII, PCI (both variants), BFBC and FixedSize, alone or under
\* SizeLimited, no find_boundary call panics and every offset it returns
\* lies inside the view it was given, so that neither the engine's
\* assertion pos + split < len nor that of Slices ever fails, for any input
\* and any way the input is split into reads.
C28_AssertionValidity ==
  BaseKind \in AssertKinds => ~panicked /\ last # "Panic"

\* C28 witness: a strategy under SizeLimited returned the offset of the
\* last byte of its view, the largest offset the assertion lets pass, in a
\* view that was not the first of its chunk.
C28_Witness ==
  /\ view = "stream" /\ BaseKind \in AssertKinds
  /\ chunker.inner.kind = "SizeLimited"
  /\ stream.status = "AtSplit" /\ stream.pos = stream.len
  /\ ops = << "reader", "find_boundary" >>
  /\ Len(events) >= 2 /\ events[Len(events) - 1].t = "Data"
  /\ ~panicked

\* C29 (Engine index invariant): in every state of a ChunkStream, after any
\* sequence of read() calls including calls in which the reader failed,
\* 0 <= pos <= len <= capacity of the buffer (the reader never reporting
\* more bytes than the buffer holds); and a read() call calls the reader
\* only if pos = len when it starts, and at most once.
C29_EngineIndex ==
  /\ [](view = "stream" =>
          /\ 0 <= stream.pos /\ stream.pos <= stream.len
          /\ stream.len <= Len(stream.buffer)
          /\ Len(stream.buffer) = BUF_SIZE)
  /\ [][ view = "stream" =>
           /\ (\E k \in DOMAIN ops' : ops'[k] = "reader")
                => stream.pos = stream.len /\ stream.status # "AtSplit"
           /\ Cardinality({ k \in DOMAIN ops' : ops'[k] = "reader" }) <= 1
       ]_vars

\* C29 witness: the reader has failed in a read() call made with the
\* buffer used up; pos is 0 and len still counts the bytes of the read
\* before.
C29_Witness ==
  /\ view = "stream" /\ last = "Err" /\ ops = << "reader" >>
  /\ stream.pos = 0 /\ stream.len >= 2

\* the number of Data items among the events
NumData(evs) == Cardinality({ i \in 1..Len(evs) : evs[i].t = "Data" })

\* C30 (Termination), as claimed: read() returns at most one Data per input
\* byte and at most one End per Data before it returns None, and
\* Slices::next at most one slice per input byte; once None has been
\* returned every later call returns None and nothing more is emitted.  On
\* the empty input the engine returns one End without any Data.
C30_Termination ==
  /\ view = "stream" /\ ~panicked =>
       /\ NumData(events) <= Len(input)
       /\ NumEnds(events) <= NumData(events)
       /\ last = "None" => ops = << "reader" >> /\ stream.reader = << >>
  /\ view = "slices" /\ ~panicked =>
       /\ Len(sl_out) <= Len(input)
       /\ last = "None" => sl.pos = Len(input)

\* C31 (TTTD size bounds): with 1 <= min_chunk_size <= max_chunk_size and
\* every chunk handed to an unwrapped TTTDChunker from its first byte in one
\* view (Chunker::slices), every chunk the strategy terminates has a length
\* from min_chunk_size to max_chunk_size; the slice that is left when
\* find_boundary returns None is not one of them.
C31_TTTDSizeBounds ==
  /\ view = "slices" /\ chunker.inner.kind = "TTTD"
  /\ 1 <= chunker.inner.min_chunk_size
  /\ chunker.inner.min_chunk_size <= chunker.inner.max_chunk_size
  => \A n \in DOMAIN cuts :
       /\ chunker.inner.min_chunk_size <= CutLengths(cuts, 0)[n]
       /\ CutLengths(cuts, 0)[n] <= chunker.inner.max_chunk_size

\* C31 witness: TTTD with min_chunk_size 2 and max_chunk_size 4 has gone
\* through a buffer with Slices and made a backup cut (its cuts are not
\* those of the rule of C18, which ends the chunk one byte earlier), and the
\* chunk is 3 or 4 bytes long.
C31_Witness ==
  /\ view = "slices" /\ last = "None"
  /\ chunker.inner.kind = "TTTD" /\ chunker.inner.min_chunk_size = 2
  /\ cuts # << >>
  /\ cuts # TTTDRuleCuts(chunker.inner, input, 0, TTTDState_default, 0, None)
  /\ CutLengths(cuts, 0)[1] \in {3, 4}

\* the other implementation of RAM with the window size of strategy s
RAMVariant(s) ==
  IF s.kind = "RAM" THEN MaybeOptimizedRAMChunker_new(s.window_size)
  ELSE RAMChunker_new(s.window_size)

\* C32 (RAM variants agree), as claimed: the cuts that RAMChunker(W) or
\* MaybeOptimizedRAMChunker(W) reports, for every split of the input into
\* views, are the cuts the other variant reports on the same input (taken
\* from its run over the whole input in one view, which by C4 is its run
\* under every split).  The code of the two differs: RAMChunker cuts only at
\* chunk positions > W and raises its maximum up to position W, the other
\* cuts from position W on with the maximum of positions 0..W-1.
C32_RAMVariantsAgree ==
  chunker.inner.kind \in {"RAM", "MaybeOptimizedRAM"} =>
    /\ IsPrefix(cuts, OneViewCuts(RAMVariant(chunker.inner), input, 0))
    /\ last = "None" =>
         cuts = OneViewCuts(RAMVariant(chunker.inner), input, 0)

\* MaybeOptimizedRAMChunker(W) alone follows the rule of C20 for every split
\* of the input into views
MaybeOptimizedRAMFollowsRule ==
  chunker.inner.kind = "MaybeOptimizedRAM" =>
    /\ IsPrefix(cuts, RAMRuleCuts(chunker.inner.window_size, input, 0, 0))
    /\ last = "None" =>
         cuts = RAMRuleCuts(chunker.inner.window_size, input, 0, 0)

\* the other implementation of PCI with the parameters of strategy s
PCIVariant(s) ==
  IF s.kind = "PCI"
  THEN PCIChunkerNonConst_new(s.W, s.one_bits_threshold)
  ELSE PCIChunker_new(s.window_size, s.one_bits_threshold)

\* C33 (PCI variants agree): for W >= 1, the cuts that PCIChunker::<W>::new(K)
\* or PCIChunkerNonConst::new(W, K) reports, for every split of the input
\* into views and across the resets that follow the cuts, are the cuts that
\* the other variant reports on the same input handed over in one view;
\* taken in both directions, the two report the same cuts under every pair
\* of splits.
C33_PCIVariantsAgree ==
  chunker.inner.kind \in {"PCI", "PCINonConst"} =>
    /\ IsPrefix(cuts, OneViewCuts(PCIVariant(chunker.inner), input, 0))
    /\ last = "None" =>
         cuts = OneViewCuts(PCIVariant(chunker.inner), input, 0)

\* C33 witness: PCIChunkerNonConst has gone through an input that reached
\* it in more than one view and has cut twice, the second time after a
\* reset, at the offsets PCIChunker cuts at.
C33_Witness ==
  /\ StreamDone /\ chunker.inner.kind = "PCINonConst"
  /\ chunker.inner.window_size = 2
  /\ Len(events) > 4
  /\ Len(cuts) = 2 /\ resets >= 2
  /\ cuts = OneViewCuts(PCIVariant(chunker.inner), input, 0)

\* the offsets listed in the sequence cs, as a set
OffsetSet(cs) == { cs[j] : j \in DOMAIN cs }

RECURSIVE SingleChunkData(_, _, _, _)
\* every Data item of evs, the first of which starts at input offset from,
\* has 1..BUF_SIZE bytes and no cut of the set O before its last byte; the
\* item after it is End if its last byte is a cut, an End also being allowed
\* after the last of the n bytes of the input
SingleChunkData(evs, from, O, n) ==
  IF evs = << >> THEN TRUE
  ELSE IF Head(evs).t = "Data"
  THEN /\ 1 <= Len(Head(evs).d) /\ Len(Head(evs).d) <= BUF_SIZE
       /\ \A c \in O : ~(from <= c /\ c < from + Len(Head(evs).d) - 1)
       /\ Len(evs) > 1 =>
            IF evs[2].t = "End"
            THEN \/ from + Len(Head(evs).d) - 1 \in O
                 \/ from + Len(Head(evs).d) = n
            ELSE from + Len(Head(evs).d) - 1 \notin O
       /\ SingleChunkData(Tail(evs), from + Len(Head(evs).d), O, n)
  ELSE SingleChunkData(Tail(evs), from, O, n)

\* the Data item that goes with the strategy's answer r about the view v
DataAfter(v, r) ==
  [d |-> IF IsSome(r.res) THEN Slice(v, 0, Unwrap(r.res) + 1) ELSE v,
   cut |-> IsSome(r.res)]

\* the chunk boundaries of the run: for the strategies of C4 those of the
\* strategy run over the whole input in one view, for the others those
\* reported so far
ChunkEnds ==
  IF BaseKind \in SeamKinds
  THEN OffsetSet(OneViewCuts(chunker.inner, input, 0))
  ELSE OffsetSet(cuts)

\* C34 (Data events): every Data item read() returns has at least 1 and at
\* most BUF_SIZE bytes, all of one chunk.  In every call that returns Data,
\* reader failures before it included, the payload is the view
\* buffer[pos..len] up to and including the offset find_boundary reports on
\* it, with the End pending, or the whole view when it reports none; and in
\* the runs without reader failure no Data item has a chunk boundary before
\* its last byte, and a Data item whose last byte is a chunk boundary is
\* followed by End.
C34_DataEvents ==
  /\ [](view = "stream" /\ errs = << >> =>
          SingleChunkData(events, 0, ChunkEnds, Len(input)))
  /\ [][ view = "stream" /\ last' = "Data" =>
           /\ Len(events') = Len(events) + 1
           /\ 1 <= Len(events'[Len(events')].d)
           /\ Len(events'[Len(events')].d) <= BUF_SIZE
           /\ LET x == DataAfter(
                         Slice(stream'.buffer,
                               IF \E k \in DOMAIN ops' : ops'[k] = "reader"
                               THEN 0 ELSE stream.pos,
                               stream'.len),
                         ChunkerImpl_find_boundary(
                           stream.inner,
                           Slice(stream'.buffer,
                                 IF \E k \in DOMAIN ops' : ops'[k] = "reader"
                                 THEN 0 ELSE stream.pos,
                                 stream'.len)))
              IN  /\ events'[Len(events')].d = x.d
                  /\ (stream'.status = "AtSplit") = x.cut
                  /\ (Len(cuts') = Len(cuts) + 1) = x.cut
       ]_vars

\* C34 witness: a read of four bytes has been given out as three Data
\* items, the first two ending at a cut inside the buffer and the third one
\* taking the rest, and the stream has ended.
C34_Witness ==
  /\ StreamDone /\ errs = << >> /\ ~panicked
  /\ Len(input) = 4 /\ Len(cuts) = 2
  /\ NumData(events) = 3 /\ NumEnds(events) = 3
  /\ events[1].t = "Data" /\ Len(events[1].d) = 2
  /\ events[3].t = "Data" /\ Len(events[3].d) = 1
  /\ events[5].t = "Data" /\ Len(events[5].d) = 1

\* the last call of the view called find_boundary / reset
Called(o, name) == \E k \in DOMAIN o : o[k] = name

\* C35 (SizeLimited counter bound): with SizeLimited (max_size M >= 1)
\* around any strategy, under the engine and under Slices, pos < M holds
\* when a call that reaches find_boundary starts, so the assertion
\* max_size > pos holds, and in every state from which find_boundary can be
\* called next; and the reset that follows every cut, natural or forced,
\* leaves pos = 0 before the next find_boundary.
C35_SizeLimitedCounter ==
  /\ [](chunker.inner.kind = "SizeLimited" /\ ~panicked =>
          /\ chunker.inner.max_size >= 1
          /\ view = "stream" /\ stream.status # "AtSplit" =>
               stream.inner.pos < stream.inner.max_size
          /\ view = "stream" /\ last = "End" /\ Called(ops, "reset") =>
               stream.inner.pos = 0
          /\ view = "slices" => sl.inner.pos < sl.inner.max_size
          /\ view = "slices" /\ Called(ops, "reset") => sl.inner.pos = 0)
  /\ [][ chunker.inner.kind = "SizeLimited" =>
           /\ view = "stream" /\ Called(ops', "find_boundary") =>
                /\ stream.inner.max_size > stream.inner.pos
                /\ Len(cuts) = resets
                /\ Called(ops, "reset") => stream.inner.pos = 0
           /\ view = "slices" /\ Called(ops', "find_boundary") =>
                /\ sl.inner.max_size > sl.inner.pos
                /\ Len(cuts) = resets
                /\ cuts # << >> => sl.inner.pos = 0
           /\ Called(ops', "reset") =>
                IF view = "stream" THEN stream'.inner.pos = 0
                ELSE sl'.inner.pos = 0
       ]_vars

\* C35 witness: under max_size M the engine has returned the End of a
\* second cut and reset the strategy; the first chunk was cut by the limit
\* at M bytes, the second one by the inner strategy before M bytes, in a
\* view that was not the first of the input.
C35_Witness ==
  /\ view = "stream" /\ chunker.inner.kind = "SizeLimited" /\ ~panicked
  /\ last = "End" /\ ops = << "reset" >>
  /\ stream.inner.pos = 0
  /\ Len(cuts) = 2 /\ Len(events) > 4
  /\ CutLengths(cuts, 0)[1] = chunker.inner.max_size
  /\ CutLengths(cuts, 0)[2] < chunker.inner.max_size

RECURSIVE WindowBits(_, _)
\* the number of 1-bits in the slots 0..n-1 of the window
WindowBits(window, n) ==
  IF n = 0 THEN 0 ELSE count_ones(window[n - 1]) + WindowBits(window, n - 1)

\* the strategy the view is running, and the one inside its size limit
StrategyInUse == IF view = "slices" THEN sl.inner ELSE stream.inner

Unlimited(s) == IF s.kind = "SizeLimited" THEN s.inner ELSE s

\* running_popcount of the PCI state st counts the 1-bits of its window
PopcountExact(st, W) == st.running_popcount = WindowBits(st.window, W)

\* C36 (PCI running popcount): in every state PCIChunker is in between
\* calls, after each byte ingested (the views come in every length from one
\* byte on) and after each reset, running_popcount is the number of 1-bits
\* of the W bytes in the window; the popcount of the byte in the slot to be
\* overwritten is at most running_popcount, so the subtraction does not go
\* below zero, and ingesting any byte from there keeps the equality.
C36_PCIPopcount ==
  BaseKind = "PCI" =>
    /\ PopcountExact(Unlimited(StrategyInUse).state, Unlimited(StrategyInUse).W)
    /\ PopcountExact(PCIChunker_reset(Unlimited(StrategyInUse)).state,
                     Unlimited(StrategyInUse).W)
    /\ \A b \in Bytes :
         /\ Unlimited(StrategyInUse).state.running_popcount
              >= count_ones(Unlimited(StrategyInUse).state.window[
                   Unlimited(StrategyInUse).state.pos
                     % Unlimited(StrategyInUse).W])
         /\ PopcountExact(
              PCIChunkerState_ingest_byte_update_popcount(
                Unlimited(StrategyInUse).state, Unlimited(StrategyInUse).W, b),
              Unlimited(StrategyInUse).W)

\* C36 witness: PCIChunker<2> has ingested three bytes of a chunk, the
\* third one overwriting the byte with a 1-bit in slot 0 of the ring, and
\* running_popcount is back to the 0 one-bits left in the window.
C36_Witness ==
  /\ view = "stream" /\ chunker.inner.kind = "PCI" /\ chunker.inner.W = 2
  /\ Len(input) >= 3 /\ input[1] = 1 /\ cuts = << >>
  /\ stream.inner.state.pos = 3
  /\ stream.inner.state.window[0] # input[1]
  /\ stream.inner.state.running_popcount = 0
  /\ PopcountExact(stream.inner.state, 2)

====
